---- MODULE Spec2Model ----
(***************************************************************************)
(* LetsDoIt: the local store (IndexedDB), the snapshot codec               *)
(* (exportAllData / importAllData), the modification clock and the         *)
(* Google Drive sync engine (syncFromGoogleDrive / pushToGoogleDrive) of   *)
(* the web app's db/database.js, with the callers that start a sync        *)
(* (SyncContext.performSync and AddTaskPage.createTaskFromParams), the     *)
(* debounced auto-sync of SyncContext.triggerAutoSync, and the extension   *)
(* popup's triggerAutoSync / handleSync.                                   *)
(*                                                                         *)
(* Every await of the source is a step of its own: an async function is a  *)
(* process p with a program counter pc[p] and its local variables loc[p].  *)
(* Timestamp strings are modelled by the instant they denote (1, 2, ...),  *)
(* null/undefined/'' by Null and a string Date cannot parse by BadTs.      *)
(* Task and habit records keep id and payload; createdAt/updatedAt are     *)
(* left out.                                                               *)
(***************************************************************************)
EXTENDS Integers, Sequences, FiniteSets, TLC

\* ---------------------------------------------------------------- bounds
MaxTime == 3          \* wall clock values 1..MaxTime
MaxCalls == 2         \* calls of syncFromGoogleDrive / importAllData in a run
MaxTriggers == 3      \* calls of the auto-sync callback in a run
MaxSeconds == 6       \* how long the timers' time runs
MaxRounds == 4        \* syncs two devices complete in turn

\* ------------------------------------------------------------ timestamps
Null == 0             \* null / undefined / '' (all falsy)
BadTs == -1           \* a non-empty string that is no date
NaN == -2             \* new Date(BadTs).getTime()

Times == 1..MaxTime
Stamps == Times \cup {Null, BadTs}

\* `x ? new Date(x).getTime() : 0`
EpochOrZero(ts) == IF ts = Null THEN 0 ELSE IF ts = BadTs THEN NaN ELSE ts

\* a > b on JS numbers: false as soon as one side is NaN
JsGreater(a, b) == a # NaN /\ b # NaN /\ a > b

\* '' where a timestamp is expected: falsy, and not null
EmptyString == -3

\* a || b || c on timestamp strings
FirstTruthy(a, b, c) == IF a # Null THEN a ELSE IF b # Null THEN b ELSE c

\* ------------------------------------------------------------ data model
DB_VERSION == 9
DEFAULT_TAGS == <<"personal", "work", "health", "errands">>

DefaultSyncSettings ==
    [enabled |-> FALSE, shareLink |-> "", writeEndpoint |-> "",
     lastSyncAt |-> Null, autoSync |-> FALSE]

\* the settings object store: a map from the keys present to their values
HasKey(s, k) == k \in DOMAIN s
PutKey(s, k, v) == [x \in (DOMAIN s) \cup {k} |-> IF x = k THEN v ELSE s[x]]
NoSettings == [x \in {} |-> Null]

\* getGoogleDriveSyncSettings: the stored record or the defaults
GetSyncSettings(s) ==
    IF HasKey(s, "googleDriveSync") THEN s["googleDriveSync"] ELSE DefaultSyncSettings

\* getLocalDataModifiedAt: `timestamp || null`
GetClock(s) ==
    IF HasKey(s, "localDataModifiedAt") THEN s["localDataModifiedAt"] ELSE Null

\* the keys exportAllData copies
ExportKeys == {"availableTags", "sectionExpandStates"}

\* (a variant that copies the whole settings store)
ExportEverySetting(s) == s

ExportSettings(s) == [k \in (DOMAIN s) \cap ExportKeys |-> s[k]]

\* variant: getAll returns the first record only
InIdOrderFirstOnly(S) ==
    IF S = {} THEN <<>> ELSE <<CHOOSE x \in S : \A y \in S : x.id <= y.id>>

\* db.getAll: the records of a store in key (id) order
RECURSIVE InIdOrder(_)
InIdOrder(S) ==
    IF S = {} THEN <<>>
    ELSE LET r == CHOOSE x \in S : \A y \in S : x.id <= y.id
         IN <<r>> \o InIdOrder(S \ {r})

Range(q) == {q[i] : i \in 1..Len(q)}

\* store.put(r) for every r of the list in order, keyed by id
RECURSIVE PutAll(_, _)
PutAll(S, q) ==
    IF q = <<>> THEN S
    ELSE PutAll({x \in S : x.id # Head(q).id} \cup {Head(q)}, Tail(q))

\* the unique index on habits.date: does putting r into S violate it?
DateClash(S, r) == \E x \in S : x.date = r.date /\ x.id # r.id

\* does putting the list in order hit the unique index somewhere?
RECURSIVE PutAllClashes(_, _)
PutAllClashes(S, q) ==
    IF q = <<>> THEN FALSE
    ELSE DateClash(S, Head(q))
         \/ PutAllClashes({x \in S : x.id # Head(q).id} \cup {Head(q)}, Tail(q))

\* ------------------------------------------------------- remote payloads
\* A parsed JSON value: either null or an object.  An object may lack the
\* data key; its tasks / habits default to [] and its settings to {}.
Json(isObj, hasData, lm, sy, ex, ts, hs, st) ==
    [isObject |-> isObj, hasData |-> hasData, localModifiedAt |-> lm,
     syncedAt |-> sy, exportedAt |-> ex, version |-> DB_VERSION,
     tasks |-> ts, habits |-> hs, settings |-> st]

JsonNull == Json(FALSE, FALSE, Null, Null, Null, <<>>, <<>>, NoSettings)

T(i, c) == [id |-> i, content |-> c]
H(i, d, s) == [id |-> i, date |-> d, score |-> s]

OtherTags == [x \in {"availableTags"} |-> <<"work">>]

\* the data objects a remote file is drawn from: empty, two of each, two
\* habits for one date (ids differ); ids are the stores' key path and no
\* list repeats one
RemoteDatas ==
    { <<(<<>>), (<<>>), NoSettings>>,
      <<(<<T(1, "b"), T(2, "a")>>), (<<H(1, 1, 2), H(2, 2, 1)>>), NoSettings>>,
      <<(<<T(2, "a")>>), (<<H(1, 1, 1), H(2, 1, 2)>>), NoSettings>> }

\* <<localModifiedAt, syncedAt, exportedAt>> of a remote file: every
\* localModifiedAt alone, exportedAt alone (an older exporter), and a pushed
\* payload's three
RemoteStamps ==
    {<<lm, Null, Null>> : lm \in Stamps}
      \cup {<<Null, Null, 2>>, <<Null, MaxTime, 1>>, <<1, MaxTime, 2>>}

OneOfEach == <<(<<T(1, "a")>>), (<<H(1, 1, 1)>>), OtherTags>>

\* data.settings of a file no export of this program has written: besides
\* the tags it has a localDataModifiedAt entry
ForeignSettings ==
    [x \in {"availableTags", "localDataModifiedAt"} |->
        IF x = "availableTags" THEN <<"work">> ELSE 2]

\* data.settings with a googleDriveSync entry: another device's record
SyncInSettings ==
    [x \in {"googleDriveSync"} |->
        [enabled |-> TRUE, shareLink |-> "other", writeEndpoint |-> "endpoint",
         lastSyncAt |-> 1, autoSync |-> TRUE]]

\* the files the shared link can hold: JSON null, objects without a data
\* key, every stamp with one data object, every data object with one stamp,
\* and files with foreign settings, without and with a timestamp
RemoteFiles ==
    {JsonNull}
      \cup {Json(TRUE, FALSE, lm, Null, Null, <<>>, <<>>, NoSettings) : lm \in {Null, MaxTime}}
      \cup {Json(TRUE, TRUE, s[1], s[2], s[3], OneOfEach[1], OneOfEach[2], OneOfEach[3]) :
              s \in RemoteStamps}
      \cup {Json(TRUE, TRUE, 2, Null, Null, d[1], d[2], d[3]) : d \in RemoteDatas}
      \cup {Json(TRUE, TRUE, lm, Null, Null, OneOfEach[1], OneOfEach[2], ForeignSettings) :
              lm \in {Null, MaxTime}}

\* a snapshot exportAllData can produce lists no id and no date twice
DistinctIds(q) == \A i, j \in 1..Len(q) : q[i].id = q[j].id => i = j
DistinctDates(q) == \A i, j \in 1..Len(q) : q[i].date = q[j].date => i = j


\* ------------------------------------------------------------------ state
VARIABLES
    tasks,          \* object store 'tasks': set of task records, ids unique
    habits,         \* object store 'habits': ids unique, dates unique (index)
    settings,       \* object store 'settings': key -> value
    remote,         \* the JSON value the shared Drive file holds
    now,            \* the wall clock new Date() reads
    pc,             \* where each async call stands
    loc,            \* its local variables, and what it has done so far
    calls,          \* how many calls have been started
    app             \* the React side: SyncProvider's refs and state, AddTaskPage

storeVars == <<tasks, habits, settings>>
vars == <<tasks, habits, settings, remote, now, pc, loc, calls, app>>

Procs == {"ctx", "page"}

NoResult ==
    [action |-> "none", isFirstSync |-> FALSE, note |-> "",
     tasksImported |-> 0, habitsImported |-> 0]

StoreNow == [tasks |-> tasks, habits |-> habits, settings |-> settings]

InitLoc ==
    [op |-> "none", settings |-> DefaultSyncSettings, isFirstSync |-> FALSE,
     remoteData |-> JsonNull, localModifiedAt |-> Null, remoteModifiedAt |-> Null,
     branch |-> "none", importData |-> JsonNull, preserve |-> FALSE,
     exp |-> JsonNull, pushSettings |-> DefaultSyncSettings,
     cur |-> DefaultSyncSettings, stamp |-> Null,
     result |-> NoResult, error |-> "none",
     pre |-> [tasks |-> {}, habits |-> {}, settings |-> NoSettings],
     sent |-> <<>>, importCalls |-> 0, fetched |-> FALSE,
     arg |-> [id |-> 0, date |-> 0, val |-> ""], existing |-> [id |-> 0],
     tags |-> <<>>, clockBefore |-> Null, clockAfter |-> Null,
     overlap |-> FALSE, silent |-> FALSE]

\* SyncProvider: isSyncingRef, pendingAutoSyncRef (useRef), isEnabled,
\* autoSyncEnabled, syncState, statusMessage, lastSyncResult (useState; of
\* the message only whether it is empty, of the result its action and its
\* error) and its
\* pending timers (the debounce timer, the 500 ms retry, the status reset);
\* other, rounds, winners: where two devices share a file, the Local Store
\* of the device that is not syncing, the syncs completed so far and the
\* tasks and habits of the sides that held the latest timestamp at the start;
\* settled: how the promise of the last performSync call that ran a sync
\* was settled; ms: the time setTimeout counts in, autoSyncDue: when the
\* debounce timer is due; triggers, lastTrigger, bursts, invocations: the
\* calls of the registered callback so far, the time of the last one, the
\* bursts they form and the calls the debounce timer has made; callback:
\* db/database.js's autoSyncCallback is registered (SyncCallbackSetup does
\* it on mount); unsynced: a trigger was accepted and no sync has started
\* since; timersSet: how often the debounce timer was set; initialSyncRun:
\* the mount effect performInitialSync has run; AddTaskPage: hasCreatedRef.  The extension popup keeps the same
\* state in module variables: syncEnabled (here isEnabled), autoSyncEnabled,
\* isSyncing (isSyncingRef), syncState, autoSyncTimer.
InitApp ==
    [isSyncingRef |-> FALSE, pendingAutoSyncRef |-> FALSE, isEnabled |-> FALSE,
     autoSyncEnabled |-> FALSE, syncState |-> "disabled",
     statusMessage |-> "", lastSyncResult |-> [action |-> "null", error |-> "none"], settled |-> "none",
     autoSyncTimer |-> FALSE, retryTimer |-> FALSE, statusTimer |-> FALSE,
     ms |-> 0, autoSyncDue |-> 0, triggers |-> 0, lastTrigger |-> -1,
     bursts |-> 0, invocations |-> 0, callback |-> TRUE, unsynced |-> FALSE,
     timersSet |-> 0,
     hasCreatedRef |-> FALSE, initialSyncRun |-> FALSE,
     other |-> [tasks |-> {}, habits |-> {}, settings |-> NoSettings],
     rounds |-> 0, winners |-> {}]

\* a fresh install: the upgrade handler stores the default tags
FreshSettings == [x \in {"availableTags"} |-> DEFAULT_TAGS]

\* what the device holds when a call starts: a fresh install, the content of
\* OneOfEach, or content of its own
LocalContents ==
    { <<{}, {}, FreshSettings>>,
      <<{T(1, "a")}, {H(1, 1, 1)}, OtherTags>>,
      <<{T(1, "a"), T(2, "b")}, {H(2, 1, 2)}, FreshSettings>> }

\* the sync settings the options page can have stored: never configured, or
\* a link (with or without write endpoint) that was or was not synced before
SyncConfigs ==
    {DefaultSyncSettings}
      \cup {[enabled |-> TRUE, shareLink |-> l, writeEndpoint |-> e,
             lastSyncAt |-> ls, autoSync |-> FALSE] :
              l \in {"link"}, e \in {"", "endpoint"}, ls \in {Null, 1}}
      \cup {[enabled |-> TRUE, shareLink |-> "junk", writeEndpoint |-> "",
             lastSyncAt |-> Null, autoSync |-> FALSE]}

WithClock(s, ts) == IF ts = Null THEN s ELSE PutKey(s, "localDataModifiedAt", ts)
WithSync(s, cfg) ==
    IF cfg = DefaultSyncSettings THEN s ELSE PutKey(s, "googleDriveSync", cfg)

\* Any state the device can be in between two calls, with any file behind
\* the link.
Init ==
    /\ \E c \in LocalContents, ts \in Stamps, cfg \in SyncConfigs :
         /\ tasks = c[1]
         /\ habits = c[2]
         /\ settings = WithSync(WithClock(c[3], ts), cfg)
    /\ remote \in RemoteFiles
    /\ now = 1
    /\ pc = [p \in Procs |-> "idle"]
    /\ loc = [p \in Procs |-> InitLoc]
    /\ calls = 0
    /\ app = InitApp

Goto(p, label) == pc' = [pc EXCEPT ![p] = label]

\* throw: the call ends with an exception
Throw(p, err) ==
    /\ pc' = [pc EXCEPT ![p] = "failed"]
    /\ loc' = [loc EXCEPT ![p].error = err]

\* ------------------------------------------------- syncFromGoogleDrive
\* the call itself: nothing has run yet
CallSync(p) ==
    /\ pc[p] = "idle"
    /\ calls < MaxCalls
    /\ calls' = calls + 1
    /\ Goto(p, "sGetSettings")
    /\ loc' = [loc EXCEPT ![p] = [InitLoc EXCEPT !.op = "sync", !.pre = StoreNow]]
    /\ UNCHANGED <<tasks, habits, settings, remote, now, app>>

\* (a variant without the share link check)
SyncGetSettingsUnchecked(p) ==
    /\ pc[p] = "sGetSettings"
    /\ LET s == GetSyncSettings(settings) IN
         /\ Goto(p, "sFetch")
         /\ loc' = [loc EXCEPT ![p].settings = s,
                               ![p].isFirstSync = (s.lastSyncAt = Null)]
    /\ UNCHANGED <<tasks, habits, settings, remote, now, calls, app>>

\* const settings = await getGoogleDriveSyncSettings();
\* if (!settings.shareLink) throw; const isFirstSync = !settings.lastSyncAt;
SyncGetSettings(p) ==
    /\ pc[p] = "sGetSettings"
    /\ LET s == GetSyncSettings(settings) IN
         IF s.shareLink = ""
         THEN Throw(p, "notConfigured")
         ELSE /\ Goto(p, "sFetch")
              /\ loc' = [loc EXCEPT ![p].settings = s,
                                    ![p].isFirstSync = (s.lastSyncAt = Null)]
    /\ UNCHANGED <<tasks, habits, settings, remote, now, calls, app>>

\* extractGoogleDriveFileId: null when the link has none of the three shapes
HasFileId(link) == link = "link"

\* const remoteData = await fetchFromGoogleDrive(settings.shareLink);
\* every proxy may fail (network, timeout, non-200, HTML, non-JSON text)
SyncFetch(p) ==
    /\ pc[p] = "sFetch"
    /\ IF ~HasFileId(loc[p].settings.shareLink)
       THEN Throw(p, "invalidLink")
       ELSE \/ Throw(p, "fetch")
            \/ /\ Goto(p, "sReadClock")
               /\ loc' = [loc EXCEPT ![p].remoteData = remote, ![p].fetched = TRUE]
    /\ UNCHANGED <<tasks, habits, settings, remote, now, calls, app>>

\* variants of the comparison, each with one test changed
DecideNoFirst(isFirstSync, localModifiedAt, remoteModifiedAt, writeEndpoint) ==
    LET localTime == EpochOrZero(localModifiedAt)
        remoteTime == EpochOrZero(remoteModifiedAt)
    IN IF JsGreater(localTime, remoteTime) /\ writeEndpoint # "" THEN "push"
       ELSE IF JsGreater(remoteTime, localTime) THEN "pull"
       ELSE IF JsGreater(localTime, remoteTime) /\ writeEndpoint = "" THEN "noEndpoint"
       ELSE "tie"

DecidePushFirst(isFirstSync, localModifiedAt, remoteModifiedAt, writeEndpoint) ==
    LET localTime == EpochOrZero(localModifiedAt)
        remoteTime == EpochOrZero(remoteModifiedAt)
    IN IF JsGreater(localTime, remoteTime) /\ writeEndpoint # "" THEN "push"
       ELSE IF isFirstSync THEN "first"
       ELSE IF JsGreater(remoteTime, localTime) THEN "pull"
       ELSE IF JsGreater(localTime, remoteTime) /\ writeEndpoint = "" THEN "noEndpoint"
       ELSE "tie"

DecideNoEndpointPulls(isFirstSync, localModifiedAt, remoteModifiedAt, writeEndpoint) ==
    LET localTime == EpochOrZero(localModifiedAt)
        remoteTime == EpochOrZero(remoteModifiedAt)
    IN IF isFirstSync THEN "first"
       ELSE IF JsGreater(localTime, remoteTime) /\ writeEndpoint # "" THEN "push"
       ELSE IF localTime # remoteTime THEN "pull"
       ELSE "tie"

DecideTiePulls(isFirstSync, localModifiedAt, remoteModifiedAt, writeEndpoint) ==
    LET localTime == EpochOrZero(localModifiedAt)
        remoteTime == EpochOrZero(remoteModifiedAt)
    IN IF isFirstSync THEN "first"
       ELSE IF JsGreater(localTime, remoteTime) /\ writeEndpoint # "" THEN "push"
       ELSE IF JsGreater(localTime, remoteTime) /\ writeEndpoint = "" THEN "noEndpoint"
       ELSE "pull"

\* the branch the comparison of lines 959-1013 selects
Decide(isFirstSync, localModifiedAt, remoteModifiedAt, writeEndpoint) ==
    LET localTime == EpochOrZero(localModifiedAt)
        remoteTime == EpochOrZero(remoteModifiedAt)
    IN IF isFirstSync THEN "first"
       ELSE IF JsGreater(localTime, remoteTime) /\ writeEndpoint # "" THEN "push"
       ELSE IF JsGreater(remoteTime, localTime) THEN "pull"
       ELSE IF JsGreater(localTime, remoteTime) /\ writeEndpoint = "" THEN "noEndpoint"
       ELSE "tie"

\* remoteData.localModifiedAt || remoteData.syncedAt || remoteData.exportedAt
RemoteModifiedAt(r) == FirstTruthy(r.localModifiedAt, r.syncedAt, r.exportedAt)

\* const localModifiedAt = await getLocalDataModifiedAt();
\* const remoteModifiedAt = remoteData.localModifiedAt || ...  (TypeError on null)
\* and the branch taken from there up to its first await
SyncReadClock(p) ==
    /\ pc[p] = "sReadClock"
    /\ IF ~loc[p].remoteData.isObject
       THEN Throw(p, "typeError")
       ELSE LET lm == GetClock(settings)
                rm == RemoteModifiedAt(loc[p].remoteData)
                b == Decide(loc[p].isFirstSync, lm, rm, loc[p].settings.writeEndpoint)
            IN /\ loc' = [loc EXCEPT ![p].localModifiedAt = lm,
                                     ![p].remoteModifiedAt = rm,
                                     ![p].branch = b,
                                     ![p].importData = loc[p].remoteData,
                                     ![p].preserve = TRUE]
               /\ Goto(p, CASE b \in {"first", "pull"} -> "iCheck"
                            [] b = "push" -> "pGetSettings"
                            [] OTHER -> "lGet")
    /\ UNCHANGED <<tasks, habits, settings, remote, now, calls, app>>


\* ------------------------------------------------------- importAllData
\* if (!importData || !importData.data) throw new Error('Invalid import data format')
\* variant: only `!importData` is tested
ValidImportTruthy(d) == d.isObject

ValidImport(d) == d.isObject /\ d.hasData

ImportCheck(p) ==
    /\ pc[p] = "iCheck"
    /\ IF ValidImport(loc[p].importData)
       THEN /\ Goto(p, "iClearTasks")
            /\ loc' = [loc EXCEPT ![p].importCalls = @ + 1]
       ELSE Throw(p, "invalidFormat")
    /\ UNCHANGED <<tasks, habits, settings, remote, now, calls, app>>

\* variant: the tasks store is not cleared
ImportKeepTasks(p) ==
    /\ pc[p] = "iClearTasks"
    /\ Goto(p, "iClearHabits")
    /\ UNCHANGED <<tasks, habits, settings, remote, now, loc, calls, app>>

\* await db.clear(TASKS_STORE);
ImportClearTasks(p) ==
    /\ pc[p] = "iClearTasks"
    /\ tasks' = {}
    /\ Goto(p, "iClearHabits")
    /\ UNCHANGED <<habits, settings, remote, now, loc, calls, app>>

\* await db.clear(HABITS_STORE);
ImportClearHabits(p) ==
    /\ pc[p] = "iClearHabits"
    /\ habits' = {}
    /\ Goto(p, "iTasks")
    /\ UNCHANGED <<tasks, settings, remote, now, loc, calls, app>>

\* tx1: put every task, in one readwrite transaction
ImportTasks(p) ==
    /\ pc[p] = "iTasks"
    /\ tasks' = PutAll(tasks, loc[p].importData.tasks)
    /\ Goto(p, "iHabits")
    /\ UNCHANGED <<habits, settings, remote, now, loc, calls, app>>

\* tx2: put every habit, in one readwrite transaction; a put that violates
\* the unique date index rejects and aborts the transaction
ImportHabits(p) ==
    /\ pc[p] = "iHabits"
    /\ IF PutAllClashes(habits, loc[p].importData.habits)
       THEN /\ Throw(p, "constraint")
            /\ UNCHANGED habits
       ELSE /\ habits' = PutAll(habits, loc[p].importData.habits)
            /\ Goto(p, "iSettings")
            /\ UNCHANGED loc
    /\ UNCHANGED <<tasks, settings, remote, now, calls, app>>

\* for (const [key, value] of Object.entries(settings)) await setSetting(key, value)
MergeSettings(s, imported) ==
    [k \in (DOMAIN s) \cup (DOMAIN imported) |->
        IF k \in DOMAIN imported THEN imported[k] ELSE s[k]]

\* the result importAllData returns, as the caller's result record
ImportCounts(d) ==
    [NoResult EXCEPT !.tasksImported = Len(d.tasks), !.habitsImported = Len(d.habits)]

\* the settings loop (one step), then the end of importAllData when
\* options.preserveLocalTimestamp is set: back in syncFromGoogleDrive
ImportSettings(p) ==
    /\ pc[p] = "iSettings"
    /\ settings' = MergeSettings(settings, loc[p].importData.settings)
    /\ loc' = [loc EXCEPT ![p].result = ImportCounts(loc[p].importData)]
    /\ Goto(p, IF ~loc[p].preserve THEN "iStamp"
                ELSE IF loc[p].op = "sync" THEN "sSetClock" ELSE "done")
    /\ UNCHANGED <<tasks, habits, remote, now, calls, app>>

\* (a variant that prefers the newest of the three timestamps)
ImportedStampNewest(d, t) ==
    LET S == {d.localModifiedAt, d.syncedAt, d.exportedAt} \cap Times
    IN IF S = {} THEN t ELSE CHOOSE x \in S : \A y \in S : y <= x

\* if (!options.preserveLocalTimestamp): the snapshot's own timestamp
\* (localModifiedAt || syncedAt || exportedAt), else updateLocalDataTimestamp()
ImportedStamp(d, t) ==
    LET ts == FirstTruthy(d.localModifiedAt, d.syncedAt, d.exportedAt)
    IN IF ts # Null THEN ts ELSE t

ImportStamp(p) ==
    /\ pc[p] = "iStamp"
    /\ settings' = PutKey(settings, "localDataModifiedAt",
                          ImportedStamp(loc[p].importData, now))
    /\ loc' = [loc EXCEPT ![p].result.action = "imported"]
    /\ Goto(p, "done")
    /\ UNCHANGED <<tasks, habits, remote, now, calls, app>>

\* ------------------------------------ syncFromGoogleDrive, after import
\* (a variant that leaves the clock alone after the import)
ClockAfterPullKept(s, remoteModifiedAt) == s

\* if (remoteModifiedAt) await setSetting('localDataModifiedAt', remoteModifiedAt)
ClockAfterPull(s, remoteModifiedAt) ==
    IF remoteModifiedAt # Null
    THEN PutKey(s, "localDataModifiedAt", remoteModifiedAt)
    ELSE s

SyncSetClock(p) ==
    /\ pc[p] = "sSetClock"
    /\ settings' = ClockAfterPull(settings, loc[p].remoteModifiedAt)
    /\ Goto(p, "lGet")
    /\ UNCHANGED <<tasks, habits, remote, now, loc, calls, app>>

\* setGoogleDriveSyncSettings({lastSyncAt: new Date().toISOString()}):
\* const current = await getGoogleDriveSyncSettings();
LastSyncGet(p) ==
    /\ pc[p] = "lGet"
    /\ loc' = [loc EXCEPT ![p].cur = GetSyncSettings(settings), ![p].stamp = now]
    /\ Goto(p, "lPut")
    /\ UNCHANGED <<tasks, habits, settings, remote, now, calls, app>>

\* what syncFromGoogleDrive returns on each branch
SyncResult(branch, counts) ==
    CASE branch = "first" ->
           [counts EXCEPT !.action = "pulled", !.isFirstSync = TRUE]
      [] branch = "pull" -> [counts EXCEPT !.action = "pulled"]
      [] branch = "push" -> [NoResult EXCEPT !.action = "pushed"]
      [] branch = "noEndpoint" ->
           [NoResult EXCEPT !.action = "upToDate",
              !.note = "Local data is newer. Configure write endpoint to enable push."]
      [] OTHER -> [NoResult EXCEPT !.action = "upToDate"]

\* variant: the merge drops the new lastSyncAt
WithLastSyncKept(cur, stamp) == cur

\* await setSetting('googleDriveSync', {...current, ...settings}); return {...}
WithLastSync(cur, stamp) == [cur EXCEPT !.lastSyncAt = stamp]

LastSyncPut(p) ==
    /\ pc[p] = "lPut"
    /\ settings' = PutKey(settings, "googleDriveSync",
                          WithLastSync(loc[p].cur, loc[p].stamp))
    /\ loc' = [loc EXCEPT ![p].result = SyncResult(loc[p].branch, loc[p].result)]
    /\ Goto(p, "done")
    /\ UNCHANGED <<tasks, habits, remote, now, calls, app>>

\* --------------------------------------------------- pushToGoogleDrive
\* const settings = await getGoogleDriveSyncSettings();
\* if (!settings.writeEndpoint) throw
PushGetSettings(p) ==
    /\ pc[p] = "pGetSettings"
    /\ LET s == GetSyncSettings(settings) IN
         IF s.writeEndpoint = ""
         THEN Throw(p, "noEndpoint")
         ELSE /\ Goto(p, "eTasks")
              /\ loc' = [loc EXCEPT ![p].pushSettings = s]
    /\ UNCHANGED <<tasks, habits, settings, remote, now, calls, app>>

\* exportAllData: const tasks = await db.getAll(TASKS_STORE);
ExportTasks(p) ==
    /\ pc[p] = "eTasks"
    /\ loc' = [loc EXCEPT ![p].exp =
                 Json(TRUE, TRUE, Null, Null, Null, InIdOrder(tasks), <<>>, NoSettings)]
    /\ Goto(p, "eHabits")
    /\ UNCHANGED <<tasks, habits, settings, remote, now, calls, app>>

\* variant: the habits are left out of the export
ExportNoHabits(p) ==
    /\ pc[p] = "eHabits"
    /\ Goto(p, "eClock")
    /\ UNCHANGED <<tasks, habits, settings, remote, now, loc, calls, app>>

\* const habits = await db.getAll(HABITS_STORE);
ExportHabits(p) ==
    /\ pc[p] = "eHabits"
    /\ loc' = [loc EXCEPT ![p].exp.habits = InIdOrder(habits)]
    /\ Goto(p, "eClock")
    /\ UNCHANGED <<tasks, habits, settings, remote, now, calls, app>>

\* const localModifiedAt = await getLocalDataModifiedAt();
ExportClock(p) ==
    /\ pc[p] = "eClock"
    /\ loc' = [loc EXCEPT ![p].exp.localModifiedAt = GetClock(settings)]
    /\ Goto(p, "eSettings")
    /\ UNCHANGED <<tasks, habits, settings, remote, now, calls, app>>

\* the settingsKeys loop (one step) and the returned object (exportedAt: now)
ExportSettingsStep(p) ==
    /\ pc[p] = "eSettings"
    /\ loc' = [loc EXCEPT ![p].exp.settings = ExportSettings(settings),
                          ![p].exp.exportedAt = now]
    /\ Goto(p, IF loc[p].op = "sync" THEN "pClock" ELSE "rImport")
    /\ UNCHANGED <<tasks, habits, settings, remote, now, calls, app>>

\* syncData = {...exportData, syncedAt: now, localModifiedAt: await getLocalDataModifiedAt()}
PushClock(p) ==
    /\ pc[p] = "pClock"
    /\ loc' = [loc EXCEPT ![p].exp.syncedAt = now,
                          ![p].exp.localModifiedAt = GetClock(settings)]
    /\ Goto(p, "pSend")
    /\ UNCHANGED <<tasks, habits, settings, remote, now, calls, app>>

\* variant: lastSyncAt is written before the send, so also when it throws
PushSendStampsFirst(p) ==
    /\ pc[p] = "pSend"
    /\ settings' = PutKey(settings, "googleDriveSync",
                          WithLastSync(GetSyncSettings(settings), now))
    /\ \/ /\ Throw(p, "push")
          /\ UNCHANGED remote
       \/ /\ loc' = [loc EXCEPT ![p].sent = Append(@, loc[p].exp)]
          /\ Goto(p, "lGet")
          /\ remote' \in {remote, loc[p].exp}
    /\ UNCHANGED <<tasks, habits, now, calls, app>>

\* await fetch(writeEndpoint, {mode: 'no-cors', body}): the send throws, or it
\* does not and the response is opaque: the file may or may not hold the body
PushSend(p) ==
    /\ pc[p] = "pSend"
    /\ \/ /\ Throw(p, "push")
          /\ UNCHANGED remote
       \/ /\ loc' = [loc EXCEPT ![p].sent = Append(@, loc[p].exp)]
          /\ Goto(p, "lGet")
          /\ remote' \in {remote, loc[p].exp}
    /\ UNCHANGED <<tasks, habits, settings, now, calls, app>>

\* the caller has the result (or the exception) in hand
Return(p) ==
    /\ pc[p] \in {"done", "failed"}
    /\ Goto(p, "idle")
    /\ loc' = [loc EXCEPT ![p] = InitLoc]
    /\ UNCHANGED <<tasks, habits, settings, remote, now, calls, app>>

\* the steps of importAllData up to its timestamp
ImportSteps(p) ==
    \/ ImportCheck(p) \/ ImportClearTasks(p) \/ ImportClearHabits(p)
    \/ ImportTasks(p) \/ ImportHabits(p) \/ ImportSettings(p)

\* the steps of syncFromGoogleDrive and of the pushToGoogleDrive it calls
SyncSteps(p) ==
    \/ SyncGetSettings(p) \/ SyncFetch(p) \/ SyncReadClock(p)
    \/ SyncSetClock(p) \/ LastSyncGet(p) \/ LastSyncPut(p)
    \/ PushGetSettings(p) \/ ExportTasks(p) \/ ExportHabits(p) \/ ExportClock(p)
    \/ ExportSettingsStep(p) \/ PushClock(p) \/ PushSend(p)

\* ---------------------------------------------------------- Local Store
\* the arguments of a call: an id, a date, a value
Arg(i, d, v) == [id |-> i, date |-> d, val |-> v]

\* `undefined`, what db.get and index.get give when nothing matches
NoRecord == [id |-> 0]

\* a Local Store function is called: nothing has run yet
CallStore(p, op, arg, first) ==
    /\ pc[p] = "idle"
    /\ calls < MaxCalls
    /\ calls' = calls + 1
    /\ Goto(p, first)
    /\ loc' = [loc EXCEPT ![p] = [InitLoc EXCEPT !.op = op, !.pre = StoreNow, !.arg = arg]]
    /\ UNCHANGED <<tasks, habits, settings, remote, now, app>>

\* crypto.randomUUID() of the call being started: an id no other call draws
\* and no stored record has
RandomUUID == 100 + calls

AUTO_SYNC_DEBOUNCE == 2000

\* (a variant that leaves a running timer alone instead of restarting it)
TriggerAutoSyncKeepsTimer(a) ==
    IF ~a.autoSyncEnabled \/ ~a.isEnabled \/ a.autoSyncTimer THEN a
    ELSE [a EXCEPT !.autoSyncTimer = TRUE, !.autoSyncDue = a.ms + AUTO_SYNC_DEBOUNCE,
                   !.timersSet = @ + 1]

\* SyncContext.triggerAutoSync, the registered autoSyncCallback: nothing
\* unless autoSyncEnabled && isEnabled; clearTimeout, then
\* setTimeout(performSync, AUTO_SYNC_DEBOUNCE)
TriggerAutoSync(a) ==
    IF ~a.autoSyncEnabled \/ ~a.isEnabled THEN a
    ELSE [a EXCEPT !.autoSyncTimer = TRUE, !.autoSyncDue = a.ms + AUTO_SYNC_DEBOUNCE,
                   !.timersSet = @ + 1]

\* db/database.js triggerAutoSync: if (autoSyncCallback) autoSyncCallback()
DbTrigger(a) ==
    IF ~a.callback THEN a
    ELSE [TriggerAutoSync(a) EXCEPT !.unsynced = @ \/ (a.autoSyncEnabled /\ a.isEnabled)]

\* (a variant that stamps only a store that has no clock yet)
TouchUnlessSet(p) ==
    /\ pc[p] = "touch"
    /\ settings' = IF GetClock(settings) = Null
                   THEN PutKey(settings, "localDataModifiedAt", now) ELSE settings
    /\ loc' = [loc EXCEPT ![p].clockBefore = GetClock(settings),
                          ![p].clockAfter = GetClock(settings')]
    /\ app' = DbTrigger(app)
    /\ Goto(p, "done")
    /\ UNCHANGED <<tasks, habits, remote, now, calls>>

\* await updateLocalDataTimestamp(); triggerAutoSync(); return.  The call
\* keeps the clock's value before and after its write.
Touch(p) ==
    /\ pc[p] = "touch"
    /\ settings' = PutKey(settings, "localDataModifiedAt", now)
    /\ loc' = [loc EXCEPT ![p].clockBefore = GetClock(settings),
                          ![p].clockAfter = GetClock(settings')]
    /\ app' = DbTrigger(app)
    /\ Goto(p, "done")
    /\ UNCHANGED <<tasks, habits, remote, now, calls>>

\* a sync that is past its first sync has fetched and has not ended
SteadySyncPastFetch(q) ==
    /\ loc[q].op = "sync"
    /\ loc[q].fetched
    /\ ~loc[q].isFirstSync
    /\ pc[q] \notin {"idle", "done", "failed"}

\* The same two statements with the await as a point where other callers
\* step.  (A variant that does not wait for the write: the call goes on
\* while the write is still pending.)
TouchWriteUnawaited(p) ==
    /\ pc[p] = "touch"
    /\ Goto(p, "notify")
    /\ UNCHANGED <<tasks, habits, settings, remote, now, loc, calls, app>>

\* await updateLocalDataTimestamp(): setSetting('localDataModifiedAt', now)
\* has completed
TouchWrite(p) ==
    /\ pc[p] = "touch"
    /\ settings' = PutKey(settings, "localDataModifiedAt", now)
    /\ loc' = [loc EXCEPT ![p].clockBefore = GetClock(settings),
                          ![p].clockAfter = now,
                          ![p].overlap = \E q \in Procs : SteadySyncPastFetch(q)]
    /\ Goto(p, "notify")
    /\ UNCHANGED <<tasks, habits, remote, now, calls, app>>

\* triggerAutoSync(); return: the callback is called and the promise
\* resolves (overlap: a steady-state sync was past its fetch when the clock
\* was written and still is)
TouchNotify(p) ==
    /\ pc[p] = "notify"
    /\ app' = DbTrigger(app)
    /\ Goto(p, "done")
    /\ loc' = [loc EXCEPT ![p].overlap = @ /\ \E q \in Procs : SteadySyncPastFetch(q)]
    /\ UNCHANGED <<tasks, habits, settings, remote, now, calls>>

\* createTask: await db.add(TASKS_STORE, newTask)
CreateTaskAdd(p) ==
    /\ pc[p] = "cAdd"
    /\ tasks' = tasks \cup {T(loc[p].arg.id, loc[p].arg.val)}
    /\ Goto(p, "touch")
    /\ UNCHANGED <<habits, settings, remote, now, loc, calls, app>>

\* updateTask: const existingTask = await db.get(TASKS_STORE, id); throw if none
UpdateTaskGet(p) ==
    /\ pc[p] = "uGet"
    /\ LET found == {t \in tasks : t.id = loc[p].arg.id} IN
         IF found = {}
         THEN Throw(p, "notFound")
         ELSE /\ loc' = [loc EXCEPT ![p].existing = CHOOSE t \in found : TRUE]
              /\ Goto(p, "uPut")
    /\ UNCHANGED <<tasks, habits, settings, remote, now, calls, app>>

\* updateTask: await db.put(TASKS_STORE, {...existingTask, ...updates, id})
UpdateTaskPut(p) ==
    /\ pc[p] = "uPut"
    /\ tasks' = PutAll(tasks, <<[loc[p].existing EXCEPT !.content = loc[p].arg.val]>>)
    /\ Goto(p, "touch")
    /\ UNCHANGED <<habits, settings, remote, now, loc, calls, app>>

\* deleteTask: await db.delete(TASKS_STORE, id)
DeleteTaskStep(p) ==
    /\ pc[p] = "dTask"
    /\ tasks' = {t \in tasks : t.id # loc[p].arg.id}
    /\ Goto(p, "touch")
    /\ UNCHANGED <<habits, settings, remote, now, loc, calls, app>>

\* getHabitByDate: index.get(dateStr)
GetHabitByDate(S, d) ==
    IF \E h \in S : h.date = d THEN CHOOSE h \in S : h.date = d ELSE NoRecord

\* upsertHabit: const existing = await getHabitByDate(dateStr)
UpsertHabitGet(p) ==
    /\ pc[p] = "hGet"
    /\ loc' = [loc EXCEPT ![p].existing = GetHabitByDate(habits, loc[p].arg.date)]
    /\ Goto(p, "hPut")
    /\ UNCHANGED <<tasks, habits, settings, remote, now, calls, app>>

\* (a variant over a habits store whose date index is not unique)
UpsertHabitPutNoIndex(p) ==
    /\ pc[p] = "hPut"
    /\ LET e == loc[p].existing
           r == IF e # NoRecord THEN [e EXCEPT !.score = loc[p].arg.val]
                ELSE H(loc[p].arg.id, loc[p].arg.date, loc[p].arg.val)
       IN habits' = PutAll(habits, <<r>>)
    /\ Goto(p, "touch")
    /\ UNCHANGED <<tasks, settings, remote, now, loc, calls, app>>

\* upsertHabit: db.put({...existing, ...habitData}) or db.add(newEntry); the
\* unique date index (and, for add, the key) rejects a clashing record
UpsertHabitPut(p) ==
    /\ pc[p] = "hPut"
    /\ LET e == loc[p].existing
           r == IF e # NoRecord THEN [e EXCEPT !.score = loc[p].arg.val]
                ELSE H(loc[p].arg.id, loc[p].arg.date, loc[p].arg.val)
       IN IF DateClash(habits, r) \/ (e = NoRecord /\ \E h \in habits : h.id = r.id)
          THEN /\ Throw(p, "constraint")
               /\ UNCHANGED habits
          ELSE /\ habits' = PutAll(habits, <<r>>)
               /\ Goto(p, "touch")
               /\ UNCHANGED loc
    /\ UNCHANGED <<tasks, settings, remote, now, calls, app>>

\* deleteHabit: await db.delete(HABITS_STORE, id)
DeleteHabitStep(p) ==
    /\ pc[p] = "dHabit"
    /\ habits' = {h \in habits : h.id # loc[p].arg.id}
    /\ Goto(p, "touch")
    /\ UNCHANGED <<tasks, settings, remote, now, loc, calls, app>>

\* getAvailableTags: tags || DEFAULT_TAGS
GetAvailableTags(s) ==
    IF HasKey(s, "availableTags") THEN s["availableTags"] ELSE DEFAULT_TAGS

InTags(tags, t) == \E i \in 1..Len(tags) : tags[i] = t

\* addTag / updateTag / deleteTag: const tags = await getAvailableTags();
\* updateTag returns here when no tag has the id
TagGet(p) ==
    /\ pc[p] = "tGet"
    /\ LET tags == GetAvailableTags(settings) IN
         /\ loc' = [loc EXCEPT ![p].tags = tags]
         /\ Goto(p, IF loc[p].op = "updateTag" /\ ~InTags(tags, loc[p].arg.val)
                    THEN "done" ELSE "tPut")
    /\ UNCHANGED <<tasks, habits, settings, remote, now, calls, app>>

\* the list addTag / updateTag / deleteTag writes back
NewTags(op, tags, t) ==
    CASE op = "addTag" -> Append(tags, t)
      [] op = "updateTag" ->
           [i \in 1..Len(tags) |-> IF tags[i] = t THEN "edited" ELSE tags[i]]
      [] OTHER -> SelectSeq(tags, LAMBDA x : x # t)

\* await setSetting('availableTags', tags)
TagPut(p) ==
    /\ pc[p] = "tPut"
    /\ settings' = PutKey(settings, "availableTags",
                          NewTags(loc[p].op, loc[p].tags, loc[p].arg.val))
    /\ Goto(p, "touch")
    /\ UNCHANGED <<tasks, habits, remote, now, loc, calls, app>>

\* (a variant whose settings write also stamps the clock)
SetUiSettingStamps(p) ==
    /\ pc[p] = "xPut"
    /\ settings' = PutKey(PutKey(settings,
                              IF loc[p].op = "setTheme" THEN "theme" ELSE "sectionExpandStates",
                              loc[p].arg.val),
                          "localDataModifiedAt", now)
    /\ Goto(p, "done")
    /\ UNCHANGED <<tasks, habits, remote, now, loc, calls, app>>

\* setSectionExpandState (read, set one key, write back) and the theme
\* toggle (setSetting('theme', newTheme)): one settings key is written
SetUiSetting(p) ==
    /\ pc[p] = "xPut"
    /\ settings' = PutKey(settings,
                          IF loc[p].op = "setTheme" THEN "theme" ELSE "sectionExpandStates",
                          loc[p].arg.val)
    /\ Goto(p, "done")
    /\ UNCHANGED <<tasks, habits, remote, now, loc, calls, app>>

\* setGoogleDriveSyncSettings(patch): const current = await getGoogleDriveSyncSettings()
SetSyncGet(p) ==
    /\ pc[p] = "gGet"
    /\ loc' = [loc EXCEPT ![p].cur = GetSyncSettings(settings)]
    /\ Goto(p, "gPut")
    /\ UNCHANGED <<tasks, habits, settings, remote, now, calls, app>>

\* {...current, ...settings}
MergePatch(cur, patch) ==
    [k \in (DOMAIN cur) \cup (DOMAIN patch) |->
        IF k \in DOMAIN patch THEN patch[k] ELSE cur[k]]

\* await setSetting('googleDriveSync', updated)
SetSyncPut(p) ==
    /\ pc[p] = "gPut"
    /\ settings' = PutKey(settings, "googleDriveSync",
                          MergePatch(loc[p].cur, loc[p].arg.val))
    /\ Goto(p, "done")
    /\ UNCHANGED <<tasks, habits, remote, now, loc, calls, app>>

\* deleteAllData: clear tasks, clear habits, clear settings, default tags
DeleteAllTasks(p) ==
    /\ pc[p] = "zTasks"
    /\ tasks' = {}
    /\ Goto(p, "zHabits")
    /\ UNCHANGED <<habits, settings, remote, now, loc, calls, app>>

DeleteAllHabits(p) ==
    /\ pc[p] = "zHabits"
    /\ habits' = {}
    /\ Goto(p, "zSettings")
    /\ UNCHANGED <<tasks, settings, remote, now, loc, calls, app>>

DeleteAllSettings(p) ==
    /\ pc[p] = "zSettings"
    /\ settings' = NoSettings
    /\ Goto(p, "zTags")
    /\ UNCHANGED <<tasks, habits, remote, now, loc, calls, app>>

DeleteAllTags(p) ==
    /\ pc[p] = "zTags"
    /\ settings' = PutKey(settings, "availableTags", DEFAULT_TAGS)
    /\ Goto(p, "done")
    /\ UNCHANGED <<tasks, habits, remote, now, loc, calls, app>>

\* importAllData(await exportAllData(), {preserveLocalTimestamp: true}): the
\* export is handed to the import
RoundTripImport(p) ==
    /\ pc[p] = "rImport"
    /\ loc' = [loc EXCEPT ![p].importData = loc[p].exp, ![p].preserve = TRUE]
    /\ Goto(p, "iCheck")
    /\ UNCHANGED <<tasks, habits, settings, remote, now, calls, app>>

\* the steps of the Local Store's mutating functions
MutationSteps(p) ==
    \/ CreateTaskAdd(p) \/ UpdateTaskGet(p) \/ UpdateTaskPut(p) \/ DeleteTaskStep(p)
    \/ UpsertHabitGet(p) \/ UpsertHabitPut(p) \/ DeleteHabitStep(p)
    \/ TagGet(p) \/ TagPut(p) \/ Touch(p)

\* the steps of its settings writes and of deleteAllData
SettingsSteps(p) ==
    \/ SetUiSetting(p) \/ SetSyncGet(p) \/ SetSyncPut(p)
    \/ DeleteAllTasks(p) \/ DeleteAllHabits(p) \/ DeleteAllSettings(p) \/ DeleteAllTags(p)

\* ------------------------------------------------------- options page
\* handleDisconnectGoogleDrive
Disconnect ==
    /\ settings' = PutKey(settings, "googleDriveSync",
                     [GetSyncSettings(settings) EXCEPT !.shareLink = "",
                        !.writeEndpoint = "", !.enabled = FALSE,
                        !.autoSync = FALSE, !.lastSyncAt = Null])
    /\ UNCHANGED <<tasks, habits, remote, now, pc, loc, calls, app>>

\* handleFileChange: importAllData(JSON.parse(text)) with no options
CallImport(p, file) ==
    /\ pc[p] = "idle"
    /\ calls < MaxCalls
    /\ calls' = calls + 1
    /\ Goto(p, "iCheck")
    /\ loc' = [loc EXCEPT ![p] = [InitLoc EXCEPT !.op = "import", !.pre = StoreNow,
                                    !.importData = file, !.preserve = FALSE]]
    /\ UNCHANGED <<tasks, habits, settings, remote, now, app>>

\* the backup files a user picks: JSON null, {}, a snapshot, one without
\* any timestamp, and files with some of the three timestamps, with a
\* localModifiedAt that does not parse, with foreign settings and with
\* another device's sync settings
ImportFiles ==
    {JsonNull,
     Json(TRUE, FALSE, Null, Null, Null, <<>>, <<>>, NoSettings),
     Json(TRUE, TRUE, 2, Null, 2, OneOfEach[1], OneOfEach[2], OneOfEach[3]),
     Json(TRUE, TRUE, Null, Null, Null, <<T(2, "a")>>, <<>>, NoSettings),
     Json(TRUE, TRUE, 1, MaxTime, 2, <<T(2, "a")>>, <<>>, NoSettings),
     Json(TRUE, TRUE, Null, MaxTime, 1, <<T(2, "a")>>, <<>>, NoSettings),
     Json(TRUE, TRUE, Null, Null, MaxTime, <<T(2, "a")>>, <<>>, ForeignSettings),
     Json(TRUE, TRUE, BadTs, Null, 1, <<T(2, "a")>>, <<>>, NoSettings),
     Json(TRUE, TRUE, 2, Null, Null, <<T(2, "a")>>, <<>>, SyncInSettings)}

\* ---------------------------------------------------------- environment
\* time passes
Tick ==
    /\ now < MaxTime
    /\ now' = now + 1
    /\ UNCHANGED <<tasks, habits, settings, remote, pc, loc, calls, app>>

\* no call is running
Quiet == \A p \in Procs : pc[p] = "idle"

\* --------------------------------------------------------- SyncProvider
\* refreshSyncSettings: the provider's state a after reading the stored
\* settings s
Refreshed(a, s) ==
    LET st == GetSyncSettings(s)
        enabled == st.enabled /\ st.shareLink # ""
    IN [a EXCEPT !.isEnabled = enabled,
                 !.autoSyncEnabled = st.autoSync,
                 !.syncState = IF ~enabled THEN "disabled"
                               ELSE IF @ = "disabled" THEN "idle" ELSE @]

\* refreshSyncSettings, run by the mount effect and by the options page
\* after it has changed the sync settings
RefreshSyncSettings ==
    /\ app' = Refreshed(app, settings)
    /\ UNCHANGED <<tasks, habits, settings, remote, now, pc, loc, calls>>

\* handleDisconnectGoogleDrive as the options page runs it inside the
\* provider: the settings are written, then refreshSyncSettings()
HandleDisconnectGoogleDrive ==
    /\ settings' = PutKey(settings, "googleDriveSync",
                     [GetSyncSettings(settings) EXCEPT !.shareLink = "",
                        !.writeEndpoint = "", !.enabled = FALSE,
                        !.autoSync = FALSE, !.lastSyncAt = Null])
    /\ app' = Refreshed(app, settings')
    /\ UNCHANGED <<tasks, habits, remote, now, pc, loc, calls>>

\* (a variant that runs a sync only from Idle: a result state still shown
\* makes the call return)
PerformSyncFromIdle(a, isEnabled) ==
    IF a.isSyncingRef \/ ~isEnabled \/ a.syncState # "idle"
    THEN /\ app' = IF ~isEnabled \/ ~a.isSyncingRef THEN a
                   ELSE [a EXCEPT !.pendingAutoSyncRef = TRUE]
         /\ UNCHANGED <<tasks, habits, settings, remote, now, pc, loc, calls>>
    ELSE /\ calls < MaxCalls
         /\ calls' = calls + 1
         /\ app' = [a EXCEPT !.isSyncingRef = TRUE, !.syncState = "syncing",
                             !.statusMessage = "", !.settled = "pending",
                             !.unsynced = FALSE]
         /\ Goto("ctx", "sGetSettings")
         /\ loc' = [loc EXCEPT !["ctx"] = [InitLoc EXCEPT !.op = "sync", !.pre = StoreNow]]
         /\ UNCHANGED <<tasks, habits, settings, remote, now>>

\* performSync up to its first await, as the closure a render created in
\* which the state isEnabled had the value isEnabled (useCallback with the
\* dependency [isEnabled]); a is the provider's state as the caller leaves
\* it.  Guarded by isSyncingRef: a call that finds a sync running only sets
\* pendingAutoSyncRef.
PerformSyncOf(a, isEnabled) ==
    IF a.isSyncingRef \/ ~isEnabled
    THEN /\ app' = IF ~isEnabled THEN a ELSE [a EXCEPT !.pendingAutoSyncRef = TRUE]
         /\ UNCHANGED <<tasks, habits, settings, remote, now, pc, loc, calls>>
    ELSE /\ calls < MaxCalls
         /\ calls' = calls + 1
         /\ app' = [a EXCEPT !.isSyncingRef = TRUE, !.syncState = "syncing",
                             !.statusMessage = "", !.settled = "pending",
                             !.unsynced = FALSE]
         /\ Goto("ctx", "sGetSettings")
         /\ loc' = [loc EXCEPT !["ctx"] = [InitLoc EXCEPT !.op = "sync", !.pre = StoreNow]]
         /\ UNCHANGED <<tasks, habits, settings, remote, now>>

\* performSync of the current render
PerformSync(a) == PerformSyncOf(a, a.isEnabled)

\* the sync button: triggerSync
ClickSync == PerformSync(app)

\* handleVisibilityChange, the tab becoming visible
VisibilityChange ==
    /\ LET s == GetSyncSettings(settings)
       IN s.enabled /\ s.autoSync /\ s.shareLink # ""
    /\ PerformSync(app)

\* (a variant of the mount effect that calls the current render's performSync)
PerformInitialSyncCurrent ==
    /\ ~app.initialSyncRun
    /\ LET s == GetSyncSettings(settings)
           a == [Refreshed(app, settings) EXCEPT !.initialSyncRun = TRUE]
       IN IF s.enabled /\ s.autoSync /\ s.shareLink # ""
          THEN PerformSyncOf(a, a.isEnabled)
          ELSE /\ app' = a
               /\ UNCHANGED <<tasks, habits, settings, remote, now, pc, loc, calls>>

\* the mount effect performInitialSync (useEffect with no dependencies): it
\* reads the stored settings and calls the performSync of the first
\* render, whose isEnabled is the initial state useState(false)
PerformInitialSync ==
    /\ ~app.initialSyncRun
    /\ LET s == GetSyncSettings(settings)
           a == [app EXCEPT !.initialSyncRun = TRUE]
       IN IF s.enabled /\ s.autoSync /\ s.shareLink # ""
          THEN PerformSyncOf(a, InitApp.isEnabled)
          ELSE /\ app' = a
               /\ UNCHANGED <<tasks, habits, settings, remote, now, pc, loc, calls>>

\* time as the timers see it has reached t
At(a, t) == IF a.ms < t THEN t ELSE a.ms

\* the debounce timer of triggerAutoSync fires, at its due time or later:
\* performSync()
AutoSyncTimerFires ==
    /\ app.autoSyncTimer
    /\ PerformSync([app EXCEPT !.autoSyncTimer = FALSE,
                               !.ms = At(app, app.autoSyncDue),
                               !.invocations = @ + 1])

\* the 500 ms timer of the finally block fires
RetryTimerFires ==
    /\ app.retryTimer
    /\ PerformSync([app EXCEPT !.retryTimer = FALSE])

\* the state performSync shows for a result
ShownState(p) ==
    IF pc[p] = "failed" THEN "error"
    ELSE IF loc[p].result.action \in {"pulled", "pushed"} THEN loc[p].result.action
    ELSE "upToDate"

\* (a variant without the catch block: the exception leaves through finally)
PerformSyncEndNoCatch ==
    /\ pc["ctx"] \in {"done", "failed"}
    /\ app' = IF pc["ctx"] = "failed"
              THEN [app EXCEPT !.settled = "rejected",
                               !.isSyncingRef = FALSE,
                               !.pendingAutoSyncRef = FALSE,
                               !.retryTimer = @ \/ app.pendingAutoSyncRef]
              ELSE [app EXCEPT !.syncState = ShownState("ctx"),
                               !.statusMessage = "text",
                               !.lastSyncResult = [action |-> ShownState("ctx"),
                                                      error |-> loc["ctx"].error],
                               !.settled = ShownState("ctx"),
                               !.statusTimer = TRUE,
                               !.isSyncingRef = FALSE,
                               !.pendingAutoSyncRef = FALSE,
                               !.retryTimer = @ \/ app.pendingAutoSyncRef]
    /\ Goto("ctx", "idle")
    /\ loc' = [loc EXCEPT !["ctx"] = InitLoc]
    /\ UNCHANGED <<tasks, habits, settings, remote, now, calls>>

\* performSync after its await: try / catch, then finally.  Every branch
\* sets a message (error.message || 'Sync failed', 'Pulled ...', ...), stores
\* the result and returns it.
PerformSyncEnd ==
    /\ pc["ctx"] \in {"done", "failed"}
    /\ app' = [app EXCEPT !.syncState = ShownState("ctx"),
                          !.statusMessage = "text",
                          !.lastSyncResult = [action |-> ShownState("ctx"),
                                                      error |-> loc["ctx"].error],
                          !.settled = ShownState("ctx"),
                          !.statusTimer = TRUE,
                          !.isSyncingRef = FALSE,
                          !.pendingAutoSyncRef = FALSE,
                          !.retryTimer = @ \/ app.pendingAutoSyncRef]
    /\ Goto("ctx", "idle")
    /\ loc' = [loc EXCEPT !["ctx"] = InitLoc]
    /\ UNCHANGED <<tasks, habits, settings, remote, now, calls>>

\* setTimeout(() => setSyncState(IDLE), 3000 / 5000)
StatusTimerFires ==
    /\ app.statusTimer
    /\ app' = [app EXCEPT !.statusTimer = FALSE, !.syncState = "idle",
                          !.statusMessage = ""]
    /\ UNCHANGED <<tasks, habits, settings, remote, now, pc, loc, calls>>

\* db/database.js triggerAutoSync(), the last statement of a mutating
\* function: the registered callback is called.  A call that comes
\* AUTO_SYNC_DEBOUNCE or more after the one before it starts a new burst.
\* Timers run on time: a timer that is due runs before the call.
DbTriggerAutoSync ==
    /\ app.triggers < MaxTriggers
    /\ app.autoSyncTimer => app.ms < app.autoSyncDue
    /\ LET first == app.lastTrigger < 0 \/ app.ms - app.lastTrigger >= AUTO_SYNC_DEBOUNCE
       IN app' = [DbTrigger(app) EXCEPT !.triggers = @ + 1,
                                             !.lastTrigger = app.ms,
                                             !.bursts = IF first THEN @ + 1 ELSE @]
    /\ UNCHANGED <<tasks, habits, settings, remote, now, pc, loc, calls>>

\* a second passes; a timer that is due runs before time moves on
Advance ==
    /\ app.ms < MaxSeconds * 1000
    /\ app.autoSyncTimer => app.ms + 1000 <= app.autoSyncDue
    /\ app' = [app EXCEPT !.ms = @ + 1000]
    /\ UNCHANGED <<tasks, habits, settings, remote, now, pc, loc, calls>>

\* ------------------------------------------------------ extension popup
\* handleSync up to its await; a is the popup's state as the caller leaves
\* it.  A call that finds a sync running, or sync not enabled, returns.
HandleSync(a) ==
    IF a.syncState = "syncing" \/ a.isSyncingRef \/ ~a.isEnabled
    THEN /\ app' = a
         /\ UNCHANGED <<tasks, habits, settings, remote, now, pc, loc, calls>>
    ELSE /\ app' = [a EXCEPT !.isSyncingRef = TRUE, !.syncState = "syncing",
                             !.statusMessage = "", !.unsynced = FALSE]
         /\ Goto("ctx", "sGetSettings")
         /\ loc' = [loc EXCEPT !["ctx"] = [InitLoc EXCEPT !.op = "sync", !.pre = StoreNow]]
         /\ UNCHANGED <<tasks, habits, settings, remote, now, calls>>

\* checkSyncSettings, run once when the popup opens: reads the settings,
\* registers the callback and, with autoSync on, syncs
CheckSyncSettings ==
    /\ ~app.callback
    /\ LET st == GetSyncSettings(settings)
           enabled == st.enabled /\ st.shareLink # ""
           a == [app EXCEPT !.isEnabled = enabled, !.autoSyncEnabled = st.autoSync,
                            !.callback = TRUE,
                            !.syncState = IF enabled THEN "idle" ELSE "disabled"]
       IN IF enabled /\ st.autoSync
          THEN HandleSync(a)
          ELSE /\ app' = a
               /\ UNCHANGED <<tasks, habits, settings, remote, now, pc, loc, calls>>

\* the popup's debounce timer fires: handleSync()
PopupTimerFires ==
    /\ app.autoSyncTimer
    /\ HandleSync([app EXCEPT !.autoSyncTimer = FALSE,
                              !.ms = At(app, app.autoSyncDue),
                              !.invocations = @ + 1])

\* handleSync after its await: try / catch, then finally { isSyncing = false }
HandleSyncEnd ==
    /\ pc["ctx"] \in {"done", "failed"}
    /\ app' = [app EXCEPT !.syncState = ShownState("ctx"),
                          !.statusMessage = "text",
                          !.statusTimer = TRUE,
                          !.isSyncingRef = FALSE]
    /\ Goto("ctx", "idle")
    /\ loc' = [loc EXCEPT !["ctx"] = InitLoc]
    /\ UNCHANGED <<tasks, habits, settings, remote, now, calls>>

\* ---------------------------------------------------------- AddTaskPage
\* crypto.randomUUID(): an id no stored task has
NewId(S) == IF S = {} THEN 1 ELSE 1 + (CHOOSE i \in {x.id : x \in S} : \A y \in S : y.id <= i)

\* createTaskFromParams: the hasCreatedRef guard, up to the createTask call
OpenAddTask ==
    /\ pc["page"] = "idle"
    /\ ~app.hasCreatedRef
    /\ app' = [app EXCEPT !.hasCreatedRef = TRUE]
    /\ Goto("page", "aAdd")
    /\ UNCHANGED <<tasks, habits, settings, remote, now, loc, calls>>

\* createTask: await db.add(TASKS_STORE, newTask)
PageAddTask ==
    /\ pc["page"] = "aAdd"
    /\ tasks' = tasks \cup {T(NewId(tasks), "a")}
    /\ Goto("page", "aClock")
    /\ UNCHANGED <<habits, settings, remote, now, loc, calls, app>>

\* createTask: await updateLocalDataTimestamp(); triggerAutoSync() arms the
\* debounce timer when autoSyncEnabled && isEnabled
PageClock ==
    /\ pc["page"] = "aClock"
    /\ settings' = PutKey(settings, "localDataModifiedAt", now)
    /\ app' = DbTrigger(app)
    /\ Goto("page", "aSettings")
    /\ UNCHANGED <<tasks, habits, remote, now, loc, calls>>

\* const syncSettings = await getGoogleDriveSyncSettings();
\* if (syncSettings.enabled && syncSettings.shareLink) await syncFromGoogleDrive()
PageSettings ==
    /\ pc["page"] = "aSettings"
    /\ LET s == GetSyncSettings(settings) IN
         IF s.enabled /\ s.shareLink # ""
         THEN /\ calls < MaxCalls
              /\ calls' = calls + 1
              /\ Goto("page", "sGetSettings")
              /\ loc' = [loc EXCEPT !["page"] =
                           [InitLoc EXCEPT !.op = "sync", !.pre = StoreNow]]
         ELSE /\ Goto("page", "idle")
              /\ UNCHANGED <<loc, calls>>
    /\ UNCHANGED <<tasks, habits, settings, remote, now, app>>

\* the page has the result or has caught the exception
PageSyncEnd == Return("page")

\* ------------------------------------------------------ specifications
\* Spec: the sync engine called by one caller at a time.  A call runs to its
\* end before the next operation starts, and the clock reads the same at
\* every step of one call.
UserSync == CallSync("ctx")
UserDisconnect == Quiet /\ Disconnect
QuietTick == Quiet /\ Tick

Next ==
    \/ UserSync
    \/ UserDisconnect
    \/ QuietTick
    \/ SyncSteps("ctx")
    \/ ImportSteps("ctx")
    \/ Return("ctx")

Spec == Init /\ [][Next]_vars

\* SpecImport: the options page restores backup files, one at a time.
UserImport == \E f \in ImportFiles : CallImport("ctx", f)

NextImport ==
    \/ UserImport
    \/ QuietTick
    \/ ImportSteps("ctx")
    \/ ImportStamp("ctx")
    \/ Return("ctx")

SpecImport == Init /\ [][NextImport]_vars

\* SpecApp: one tab of the web app.  SyncProvider is mounted around every
\* route, /add-task among them: the provider's entry points and the page
\* run side by side, every await a point where the other may step.
AppConfigs ==
    {DefaultSyncSettings,
     [enabled |-> TRUE, shareLink |-> "link", writeEndpoint |-> "endpoint",
      lastSyncAt |-> 1, autoSync |-> TRUE],
     [enabled |-> TRUE, shareLink |-> "link", writeEndpoint |-> "",
      lastSyncAt |-> 1, autoSync |-> FALSE]}

\* the files behind the link while the tab is open: a snapshot, and one the
\* import rejects
TabRemoteFiles ==
    {Json(TRUE, TRUE, 2, Null, Null, OneOfEach[1], OneOfEach[2], OneOfEach[3]),
     Json(TRUE, TRUE, 2, Null, Null, <<T(2, "a")>>, <<H(1, 1, 1), H(2, 1, 2)>>, NoSettings)}

InitTab ==
    /\ \E c \in LocalContents, ts \in {Null, MaxTime}, cfg \in AppConfigs :
         /\ tasks = c[1]
         /\ habits = c[2]
         /\ settings = WithSync(WithClock(c[3], ts), cfg)
    /\ remote \in TabRemoteFiles
    /\ now = 1
    /\ pc = [p \in Procs |-> "idle"]
    /\ loc = [p \in Procs |-> InitLoc]
    /\ calls = 0
    /\ app = InitApp

NextApp ==
    \/ RefreshSyncSettings
    \/ ClickSync
    \/ VisibilityChange
    \/ AutoSyncTimerFires
    \/ RetryTimerFires
    \/ PerformSyncEnd
    \/ StatusTimerFires
    \/ OpenAddTask
    \/ PageAddTask
    \/ PageClock
    \/ PageSettings
    \/ PageSyncEnd
    \/ QuietTick
    \/ \E p \in Procs : SyncSteps(p) \/ ImportSteps(p)

SpecApp == InitTab /\ [][NextApp]_vars

\* SpecDebounce: the provider, mounted with auto-sync on, while the Local
\* Store calls the registered callback and time passes.
Mounted ==
    [InitApp EXCEPT !.isEnabled = TRUE, !.autoSyncEnabled = TRUE, !.syncState = "idle"]

InitDebounce ==
    /\ \E c \in LocalContents, ts \in {Null, MaxTime} :
         /\ tasks = c[1]
         /\ habits = c[2]
         /\ settings = WithSync(WithClock(c[3], ts),
                          [enabled |-> TRUE, shareLink |-> "link",
                           writeEndpoint |-> "endpoint", lastSyncAt |-> 1,
                           autoSync |-> TRUE])
    /\ remote \in TabRemoteFiles
    /\ now = 1
    /\ pc = [p \in Procs |-> "idle"]
    /\ loc = [p \in Procs |-> InitLoc]
    /\ calls = 0
    /\ app = Mounted

NextDebounce ==
    \/ RefreshSyncSettings
    \/ DbTriggerAutoSync
    \/ Advance
    \/ AutoSyncTimerFires
    \/ RetryTimerFires
    \/ PerformSyncEnd
    \/ StatusTimerFires
    \/ SyncSteps("ctx")
    \/ ImportSteps("ctx")

SpecDebounce == InitDebounce /\ [][NextDebounce]_vars

\* SpecPopup: the extension popup, opened with auto-sync on, while the
\* user's edits call the registered callback.  What the popup has started
\* runs on: timers fire and a sync goes on to its end.
InitPopup ==
    /\ \E c \in LocalContents, ts \in {Null, MaxTime} :
         /\ tasks = c[1]
         /\ habits = c[2]
         /\ settings = WithSync(WithClock(c[3], ts),
                          [enabled |-> TRUE, shareLink |-> "link",
                           writeEndpoint |-> "endpoint", lastSyncAt |-> 1,
                           autoSync |-> TRUE])
    /\ remote \in TabRemoteFiles
    /\ now = 1
    /\ pc = [p \in Procs |-> "idle"]
    /\ loc = [p \in Procs |-> InitLoc]
    /\ calls = 0
    /\ app = [InitApp EXCEPT !.callback = FALSE]

PopupRuns ==
    \/ CheckSyncSettings
    \/ PopupTimerFires
    \/ HandleSyncEnd
    \/ StatusTimerFires
    \/ SyncSteps("ctx")
    \/ ImportSteps("ctx")

NextPopup == DbTriggerAutoSync \/ PopupRuns

SpecPopup == InitPopup /\ [][NextPopup]_vars /\ WF_vars(PopupRuns)

\* SpecStore: the Local Store under its callers.  One caller runs any of its
\* functions, a file import or a sync; a second one writes and deletes mood
\* entries at the same time.
CallCreateTask(p) == CallStore(p, "createTask", Arg(RandomUUID, 0, "c"), "cAdd")
CallUpdateTask(p) == \E i \in {1, 3} : CallStore(p, "updateTask", Arg(i, 0, "c"), "uGet")
CallDeleteTask(p) == CallStore(p, "deleteTask", Arg(1, 0, ""), "dTask")
CallUpsertHabit(p) ==
    \E d \in {1, 2} : CallStore(p, "upsertHabit", Arg(RandomUUID, d, 3), "hGet")
CallDeleteHabit(p) == \E i \in {1, 2} : CallStore(p, "deleteHabit", Arg(i, 0, 0), "dHabit")
CallAddTag(p) == CallStore(p, "addTag", Arg(0, 0, "new"), "tGet")
CallUpdateTag(p) ==
    \E t \in {"work", "gone"} : CallStore(p, "updateTag", Arg(0, 0, t), "tGet")
CallDeleteTag(p) == CallStore(p, "deleteTag", Arg(0, 0, "work"), "tGet")
CallSetSectionExpandState(p) ==
    CallStore(p, "setSectionExpandState", Arg(0, 0, "collapsed"), "xPut")
CallSetTheme(p) == CallStore(p, "setTheme", Arg(0, 0, "dark"), "xPut")
CallSetSync(p) ==
    \E patch \in {[x \in {"autoSync"} |-> TRUE], [x \in {"lastSyncAt"} |-> now]} :
        CallStore(p, "setGoogleDriveSyncSettings", Arg(0, 0, patch), "gGet")
CallDeleteAll(p) == CallStore(p, "deleteAllData", Arg(0, 0, ""), "zTasks")
CallRoundTrip(p) == CallStore(p, "roundTrip", Arg(0, 0, ""), "eTasks")

\* the export steps exportAllData is made of
ExportSteps(p) ==
    \/ ExportTasks(p) \/ ExportHabits(p) \/ ExportClock(p) \/ ExportSettingsStep(p)

\* the backup files restored while the store is in use: a snapshot, and one
\* with two entries for one date
StoreImportFiles ==
    {Json(TRUE, TRUE, 2, Null, 2, OneOfEach[1], OneOfEach[2], OneOfEach[3]),
     Json(TRUE, TRUE, Null, Null, 1, <<T(2, "a")>>, <<H(1, 1, 1), H(2, 1, 2)>>, NoSettings)}

StoreConfigs ==
    {DefaultSyncSettings,
     [enabled |-> TRUE, shareLink |-> "link", writeEndpoint |-> "endpoint",
      lastSyncAt |-> 1, autoSync |-> FALSE]}

InitStore ==
    /\ \E c \in LocalContents, ts \in Stamps, cfg \in StoreConfigs :
         /\ tasks = c[1]
         /\ habits = c[2]
         /\ settings = WithSync(WithClock(c[3], ts), cfg)
    /\ remote = Json(TRUE, TRUE, 2, Null, Null, OneOfEach[1], OneOfEach[2], OneOfEach[3])
    /\ now = 1
    /\ pc = [p \in Procs |-> "idle"]
    /\ loc = [p \in Procs |-> InitLoc]
    /\ calls = 0
    /\ app = InitApp

StoreImport == \E f \in StoreImportFiles : CallImport("ctx", f)

NextStore ==
    \/ CallCreateTask("ctx")
    \/ CallUpdateTask("ctx")
    \/ CallDeleteTask("ctx")
    \/ CallUpsertHabit("ctx")
    \/ CallDeleteHabit("ctx")
    \/ CallAddTag("ctx")
    \/ CallUpdateTag("ctx")
    \/ CallDeleteTag("ctx")
    \/ CallSetSectionExpandState("ctx")
    \/ CallSetTheme("ctx")
    \/ CallSetSync("ctx")
    \/ CallDeleteAll("ctx")
    \/ StoreImport
    \/ UserSync
    \/ CallUpsertHabit("page")
    \/ CallDeleteHabit("page")
    \/ QuietTick
    \/ \E p \in Procs : MutationSteps(p) \/ Return(p)
    \/ SettingsSteps("ctx")
    \/ ImportSteps("ctx")
    \/ ImportStamp("ctx")
    \/ ExportSteps("ctx")
    \/ SyncGetSettings("ctx") \/ SyncFetch("ctx") \/ SyncReadClock("ctx")
    \/ SyncSetClock("ctx") \/ LastSyncGet("ctx") \/ LastSyncPut("ctx")
    \/ PushGetSettings("ctx") \/ PushClock("ctx") \/ PushSend("ctx")

SpecStore == InitStore /\ [][NextStore]_vars

\* SpecAuto: the web app after its mount effects (the provider has read the
\* stored settings), with the user creating and deleting tasks, deleting
\* all data or disconnecting on the options page and pressing the sync
\* button.
InitAuto ==
    /\ \E c \in LocalContents, ts \in {Null, MaxTime}, cfg \in AppConfigs :
         /\ tasks = c[1]
         /\ habits = c[2]
         /\ settings = WithSync(WithClock(c[3], ts), cfg)
    /\ remote \in TabRemoteFiles
    /\ now = 1
    /\ pc = [p \in Procs |-> "idle"]
    /\ loc = [p \in Procs |-> InitLoc]
    /\ calls = 0
    /\ app = Refreshed(InitApp, settings)

NextAuto ==
    \/ RefreshSyncSettings
    \/ HandleDisconnectGoogleDrive
    \/ CallCreateTask("page")
    \/ CallDeleteTask("page")
    \/ CallDeleteAll("page")
    \/ CreateTaskAdd("page") \/ DeleteTaskStep("page") \/ Touch("page")
    \/ DeleteAllTasks("page") \/ DeleteAllHabits("page")
    \/ DeleteAllSettings("page") \/ DeleteAllTags("page")
    \/ Return("page")
    \/ ClickSync
    \/ AutoSyncTimerFires
    \/ RetryTimerFires
    \/ PerformSyncEnd
    \/ StatusTimerFires
    \/ SyncSteps("ctx")
    \/ ImportSteps("ctx")

SpecAuto == InitAuto /\ [][NextAuto]_vars

\* SpecLoad: the web app from the moment SyncProvider is mounted.  What the
\* app does by itself runs on (the mount effects, a started sync, the
\* timers); the user may press the sync button or come back to the tab.
LoadRuns ==
    \/ RefreshSyncSettings
    \/ PerformInitialSync
    \/ RetryTimerFires
    \/ PerformSyncEnd
    \/ StatusTimerFires
    \/ SyncSteps("ctx")
    \/ ImportSteps("ctx")

NextLoad == LoadRuns \/ ClickSync \/ VisibilityChange

SpecLoad == InitTab /\ [][NextLoad]_vars /\ WF_vars(LoadRuns)

\* SpecOptions: the options page's sync section.  The user saves a link (or
\* an empty one), toggles auto-sync, disconnects, deletes all data and
\* syncs, one at a time.
\* (a variant of the disconnect patch that empties lastSyncAt the way it
\* empties the link)
DisconnectPatchEmptied ==
    [enabled |-> FALSE, shareLink |-> "", writeEndpoint |-> "",
     lastSyncAt |-> EmptyString, autoSync |-> FALSE]

\* handleDisconnectGoogleDrive's argument of setGoogleDriveSyncSettings
DisconnectPatch ==
    [enabled |-> FALSE, shareLink |-> "", writeEndpoint |-> "",
     lastSyncAt |-> Null, autoSync |-> FALSE]

\* handleSaveGoogleDriveLink's: enabled is !!googleDriveLink
SaveLinkPatch(link, endpoint) ==
    [enabled |-> link # "", shareLink |-> link, writeEndpoint |-> endpoint]

CallSaveGoogleDriveLink(p) ==
    \E l \in {"", "link"}, e \in {"", "endpoint"} :
        CallStore(p, "setGoogleDriveSyncSettings", Arg(0, 0, SaveLinkPatch(l, e)), "gGet")
CallToggleAutoSync(p) ==
    CallStore(p, "setGoogleDriveSyncSettings",
              Arg(0, 0, [x \in {"autoSync"} |-> ~GetSyncSettings(settings).autoSync]), "gGet")
CallDisconnect(p) ==
    CallStore(p, "setGoogleDriveSyncSettings", Arg(0, 0, DisconnectPatch), "gGet")

NextOptions ==
    \/ CallSaveGoogleDriveLink("ctx")
    \/ CallToggleAutoSync("ctx")
    \/ CallDisconnect("ctx")
    \/ CallDeleteAll("ctx")
    \/ UserSync
    \/ QuietTick
    \/ SetSyncGet("ctx") \/ SetSyncPut("ctx")
    \/ DeleteAllTasks("ctx") \/ DeleteAllHabits("ctx")
    \/ DeleteAllSettings("ctx") \/ DeleteAllTags("ctx")
    \/ SyncSteps("ctx")
    \/ ImportSteps("ctx")
    \/ Return("ctx")

SpecOptions == Init /\ [][NextOptions]_vars

\* SpecDisconnect: the user disconnects on the options page (or in the
\* popup) while a sync runs; both are chains of awaits on the same store.
NextDisconnect ==
    \/ CallSync("ctx")
    \/ SyncSteps("ctx")
    \/ ImportSteps("ctx")
    \/ Return("ctx")
    \/ CallDisconnect("page")
    \/ SetSyncGet("page")
    \/ SetSyncPut("page")

SpecDisconnect == Init /\ [][NextDisconnect]_vars

\* SpecTwice: a sync runs to its end and a second one follows it, with
\* nothing but time between them: no edit, no change of the file other than
\* the first sync's own push.
SecondSync == pc["ctx"] = "done" /\ CallSync("page")
TickBetween == pc["ctx"] = "done" /\ pc["page"] = "idle" /\ Tick

NextTwice ==
    \/ CallSync("ctx")
    \/ SyncSteps("ctx")
    \/ ImportSteps("ctx")
    \/ TickBetween
    \/ SecondSync
    \/ SyncSteps("page")
    \/ ImportSteps("page")

SpecTwice == Init /\ [][NextTwice]_vars

\* SpecLive: the provider's syncs with the two requests as what they are, a
\* request and then whatever the other side does: it answers, or it never
\* does (silent).  fetchWithTimeout arms an abort timer before its fetch;
\* pushToGoogleDrive calls fetch with no signal and no timer.
FetchRequest(p) ==
    /\ pc[p] = "sFetch"
    /\ IF ~HasFileId(loc[p].settings.shareLink)
       THEN Throw(p, "invalidLink")
       ELSE /\ Goto(p, "sWait")
            /\ \E s \in BOOLEAN : loc' = [loc EXCEPT ![p].silent = s]
    /\ UNCHANGED <<tasks, habits, settings, remote, now, calls, app>>

\* the proxy answers: some failure, or the file
FetchResponse(p) ==
    /\ pc[p] = "sWait"
    /\ ~loc[p].silent
    /\ \/ Throw(p, "fetch")
       \/ /\ Goto(p, "sReadClock")
          /\ loc' = [loc EXCEPT ![p].remoteData = remote, ![p].fetched = TRUE]
    /\ UNCHANGED <<tasks, habits, settings, remote, now, calls, app>>

\* setTimeout(() => controller.abort(), timeoutMs): 'Request timed out',
\* for each proxy in turn, then the last error is thrown
FetchAbort(p) ==
    /\ pc[p] = "sWait"
    /\ loc[p].silent
    /\ Throw(p, "fetch")
    /\ UNCHANGED <<tasks, habits, settings, remote, now, calls, app>>

\* await fetch(settings.writeEndpoint, {method: 'POST', mode: 'no-cors', ...})
PushRequest(p) ==
    /\ pc[p] = "pSend"
    /\ Goto(p, "pWait")
    /\ \E s \in BOOLEAN : loc' = [loc EXCEPT ![p].silent = s]
    /\ UNCHANGED <<tasks, habits, settings, remote, now, calls, app>>

\* the endpoint answers (opaque response), or the request fails
PushResponse(p) ==
    /\ pc[p] = "pWait"
    /\ ~loc[p].silent
    /\ \/ /\ Throw(p, "push")
          /\ UNCHANGED remote
       \/ /\ loc' = [loc EXCEPT ![p].sent = Append(@, loc[p].exp)]
          /\ Goto(p, "lGet")
          /\ remote' \in {remote, loc[p].exp}
    /\ UNCHANGED <<tasks, habits, settings, now, calls, app>>

\* what the event loop runs for a sync in flight: its continuations, the
\* abort timer, performSync's try / catch / finally
SyncRun ==
    \/ SyncGetSettings("ctx") \/ FetchRequest("ctx") \/ FetchResponse("ctx")
    \/ FetchAbort("ctx") \/ SyncReadClock("ctx") \/ SyncSetClock("ctx")
    \/ LastSyncGet("ctx") \/ LastSyncPut("ctx") \/ PushGetSettings("ctx")
    \/ ExportTasks("ctx") \/ ExportHabits("ctx") \/ ExportClock("ctx")
    \/ ExportSettingsStep("ctx") \/ PushClock("ctx") \/ PushRequest("ctx")
    \/ PushResponse("ctx") \/ ImportSteps("ctx") \/ PerformSyncEnd

NextLive ==
    \/ ClickSync
    \/ SyncRun
    \/ RetryTimerFires
    \/ StatusTimerFires
    \/ QuietTick

SpecLive == InitAuto /\ [][NextLive]_vars /\ WF_vars(SyncRun)

\* SpecConverge: two devices share one remote file, both with a write
\* endpoint and past their first sync.  The edits are over; the devices
\* sync in turn, the file stores every payload pushed to it, and a sync
\* that fails is tried again.  tasks, habits and settings are the store of
\* the device whose turn it is, app.other the store of the other one.
PairedConfig ==
    [enabled |-> TRUE, shareLink |-> "link", writeEndpoint |-> "endpoint",
     lastSyncAt |-> 1, autoSync |-> FALSE]

Latest(a, b, c) ==
    LET S == {EpochOrZero(a), EpochOrZero(b), EpochOrZero(c)}
    IN CHOOSE m \in S : \A x \in S : x <= m

InitConverge ==
    /\ \E ca \in LocalContents, cb \in LocalContents, cr \in LocalContents,
          ta \in Times \cup {Null}, tb \in Times \cup {Null}, tr \in Times :
         /\ tasks = ca[1]
         /\ habits = ca[2]
         /\ settings = WithSync(WithClock(ca[3], ta), PairedConfig)
         /\ remote = Json(TRUE, TRUE, tr, tr, tr, InIdOrder(cr[1]), InIdOrder(cr[2]),
                          ExportSettings(cr[3]))
         /\ app = [InitApp EXCEPT
                     !.other = [tasks |-> cb[1], habits |-> cb[2],
                                settings |-> WithSync(WithClock(cb[3], tb), PairedConfig)],
                     !.winners =
                        {<<ca[1], ca[2]>> : x \in {ta} \cap {Latest(ta, tb, tr)}}
                          \cup {<<cb[1], cb[2]>> : x \in {tb} \cap {Latest(ta, tb, tr)}}
                          \cup {<<cr[1], cr[2]>> : x \in {tr} \cap {Latest(ta, tb, tr)}}]
    /\ now = 1
    /\ pc = [p \in Procs |-> "idle"]
    /\ loc = [p \in Procs |-> InitLoc]
    /\ calls = 0

\* the device whose turn it is starts a sync
TurnSync ==
    /\ pc["ctx"] = "idle"
    /\ app.rounds < MaxRounds
    /\ Goto("ctx", "sGetSettings")
    /\ loc' = [loc EXCEPT !["ctx"] = [InitLoc EXCEPT !.op = "sync", !.pre = StoreNow]]
    /\ UNCHANGED <<tasks, habits, settings, remote, now, calls, app>>

\* the push request fails, or the file now holds the payload
PushStored(p) ==
    /\ pc[p] = "pSend"
    /\ \/ /\ Throw(p, "push")
          /\ UNCHANGED remote
       \/ /\ loc' = [loc EXCEPT ![p].sent = Append(@, loc[p].exp)]
          /\ Goto(p, "lGet")
          /\ remote' = loc[p].exp
    /\ UNCHANGED <<tasks, habits, settings, now, calls, app>>

\* the sync has returned: it is the other device's turn
HandOver ==
    /\ pc["ctx"] = "done"
    /\ tasks' = app.other.tasks
    /\ habits' = app.other.habits
    /\ settings' = app.other.settings
    /\ app' = [app EXCEPT !.other = StoreNow, !.rounds = @ + 1]
    /\ Goto("ctx", "idle")
    /\ loc' = [loc EXCEPT !["ctx"] = InitLoc]
    /\ UNCHANGED <<remote, now, calls>>

\* the sync has failed: the same device tries again
TryAgain == pc["ctx"] = "failed" /\ Return("ctx")

NextConverge ==
    \/ TurnSync
    \/ SyncGetSettings("ctx") \/ SyncFetch("ctx") \/ SyncReadClock("ctx")
    \/ SyncSetClock("ctx") \/ LastSyncGet("ctx") \/ LastSyncPut("ctx")
    \/ PushGetSettings("ctx") \/ ExportTasks("ctx") \/ ExportHabits("ctx")
    \/ ExportClock("ctx") \/ ExportSettingsStep("ctx") \/ PushClock("ctx")
    \/ PushStored("ctx")
    \/ ImportSteps("ctx")
    \/ HandOver
    \/ TryAgain

SpecConverge == InitConverge /\ [][NextConverge]_vars

\* SpecRace: the web app with the user editing on one page while the
\* provider syncs (sync button, debounce timer); every await of an edit and
\* of a sync is a point where the other steps, and time passes meanwhile.
NextRace ==
    \/ CallCreateTask("page")
    \/ CallUpdateTask("page")
    \/ CallDeleteTask("page")
    \/ CallUpsertHabit("page")
    \/ CallAddTag("page")
    \/ CreateTaskAdd("page") \/ UpdateTaskGet("page") \/ UpdateTaskPut("page")
    \/ DeleteTaskStep("page") \/ UpsertHabitGet("page") \/ UpsertHabitPut("page")
    \/ TagGet("page") \/ TagPut("page")
    \/ TouchWrite("page")
    \/ TouchNotify("page")
    \/ Return("page")
    \/ ClickSync
    \/ AutoSyncTimerFires
    \/ RetryTimerFires
    \/ PerformSyncEnd
    \/ StatusTimerFires
    \/ SyncSteps("ctx")
    \/ ImportSteps("ctx")
    \/ Tick

SpecRace == InitAuto /\ [][NextRace]_vars

\* SpecRoundTrip: an export handed straight back to the import, from every
\* store content.
NextRoundTrip ==
    \/ CallRoundTrip("ctx")
    \/ QuietTick
    \/ ExportSteps("ctx")
    \/ RoundTripImport("ctx")
    \/ ImportSteps("ctx")
    \/ Return("ctx")

SpecRoundTrip == Init /\ [][NextRoundTrip]_vars

\* ================================================================ claims
\* what a claim says about a call p, read off the call's record
SyncReturned(p) == loc[p].op = "sync" /\ pc[p] = "done"
SyncFailed(p) == loc[p].op = "sync" /\ pc[p] = "failed"
SyncEnded(p) == SyncReturned(p) \/ SyncFailed(p)
GotObject(p) == loc[p].fetched /\ loc[p].remoteData.isObject
LastSyncAtBefore(p) == GetSyncSettings(loc[p].pre.settings).lastSyncAt
WriteEndpointBefore(p) == GetSyncSettings(loc[p].pre.settings).writeEndpoint
ClockBefore(p) == GetClock(loc[p].pre.settings)
LocalTimeBefore(p) == EpochOrZero(ClockBefore(p))
RemoteTimeFetched(p) == EpochOrZero(RemoteModifiedAt(loc[p].remoteData))
LocalUnchanged(p) == tasks = loc[p].pre.tasks /\ habits = loc[p].pre.habits
LocalIsRemote(p) ==
    /\ tasks = Range(loc[p].remoteData.tasks)
    /\ habits = Range(loc[p].remoteData.habits)
PushLabels == {"pGetSettings", "eTasks", "eHabits", "eClock", "eSettings", "pClock", "pSend"}

\* C1: a sync that starts with lastSyncAt null and fetches an object with a
\* data key returns 'pulled' with isFirstSync true, and the local tasks and
\* habits are then exactly the fetched ones, whatever the device held, whatever
\* its clock said and whatever timestamps the file carries.  The one way such
\* a sync does not return is the import itself being rejected by the store.
C1FirstSyncPulls ==
    \A p \in Procs :
        (SyncEnded(p) /\ LastSyncAtBefore(p) = Null /\ GotObject(p)
           /\ loc[p].remoteData.hasData) =>
            /\ SyncReturned(p) =>
                 /\ loc[p].result.action = "pulled"
                 /\ loc[p].result.isFirstSync
                 /\ LocalIsRemote(p)
            /\ SyncFailed(p) => loc[p].error = "constraint"

\* a first sync over a device that held newer data of its own has returned
C1Witness ==
    /\ SyncReturned("ctx")
    /\ LastSyncAtBefore("ctx") = Null
    /\ GotObject("ctx") /\ loc["ctx"].remoteData.hasData
    /\ JsGreater(LocalTimeBefore("ctx"), RemoteTimeFetched("ctx"))
    /\ loc["ctx"].pre.tasks # {}
    /\ tasks # loc["ctx"].pre.tasks

\* C2: a sync that read lastSyncAt = null never enters pushToGoogleDrive and
\* never sends anything, also with a write endpoint and a newer local clock.
C2NoPushOnFirstSync ==
    \A p \in Procs :
        (loc[p].op = "sync" /\ loc[p].isFirstSync) =>
            /\ pc[p] \notin PushLabels
            /\ loc[p].sent = <<>>

\* a first sync with write endpoint and newer local clock has run to its end
C2Witness ==
    /\ SyncReturned("ctx")
    /\ loc["ctx"].isFirstSync
    /\ WriteEndpointBefore("ctx") # ""
    /\ JsGreater(LocalTimeBefore("ctx"), RemoteTimeFetched("ctx"))

\* C3: a sync that starts with lastSyncAt set and finds remoteTime > localTime
\* returns 'pulled'; the local tasks and habits are then exactly the remote
\* ones and nothing was sent.
C3RemoteNewerPulls ==
    \A p \in Procs :
        (SyncReturned(p) /\ LastSyncAtBefore(p) # Null
           /\ JsGreater(RemoteTimeFetched(p), LocalTimeBefore(p))) =>
            /\ loc[p].result.action = "pulled"
            /\ ~loc[p].result.isFirstSync
            /\ LocalIsRemote(p)
            /\ loc[p].sent = <<>>

\* such a pull has replaced local content, write endpoint configured
C3Witness ==
    /\ SyncReturned("ctx")
    /\ LastSyncAtBefore("ctx") # Null
    /\ JsGreater(RemoteTimeFetched("ctx"), LocalTimeBefore("ctx"))
    /\ WriteEndpointBefore("ctx") # ""
    /\ loc["ctx"].pre.tasks # {}
    /\ tasks # loc["ctx"].pre.tasks

\* C4: a sync that starts with lastSyncAt set and a write endpoint and finds
\* localTime > remoteTime returns 'pushed'; it has sent one payload, the local
\* tasks, habits, exported settings and clock, has imported nothing and the
\* local tasks and habits are what they were.
C4LocalNewerPushes ==
    \A p \in Procs :
        (SyncReturned(p) /\ LastSyncAtBefore(p) # Null /\ WriteEndpointBefore(p) # ""
           /\ JsGreater(LocalTimeBefore(p), RemoteTimeFetched(p))) =>
            /\ loc[p].result.action = "pushed"
            /\ Len(loc[p].sent) = 1
            /\ loc[p].sent[1].isObject /\ loc[p].sent[1].hasData
            /\ Range(loc[p].sent[1].tasks) = loc[p].pre.tasks
            /\ Range(loc[p].sent[1].habits) = loc[p].pre.habits
            /\ loc[p].sent[1].settings = ExportSettings(loc[p].pre.settings)
            /\ loc[p].sent[1].localModifiedAt = ClockBefore(p)
            /\ loc[p].importCalls = 0
            /\ LocalUnchanged(p)

\* a push of a non-empty store has returned
C4Witness ==
    /\ SyncReturned("ctx")
    /\ loc["ctx"].result.action = "pushed"
    /\ loc["ctx"].sent # <<>>
    /\ loc["ctx"].pre.tasks # {}
    /\ loc["ctx"].pre.habits # {}
    /\ loc["ctx"].remoteData.hasData

\* C5: with lastSyncAt set, localTime > remoteTime and no write endpoint, the
\* sync returns 'upToDate' with a non-empty note, imports nothing, sends
\* nothing and leaves the local tasks and habits as they were.
C5NoEndpointSafe ==
    \A p \in Procs :
        (SyncEnded(p) /\ GotObject(p) /\ LastSyncAtBefore(p) # Null
           /\ WriteEndpointBefore(p) = ""
           /\ JsGreater(LocalTimeBefore(p), RemoteTimeFetched(p))) =>
            /\ SyncReturned(p)
            /\ loc[p].result.action = "upToDate"
            /\ loc[p].result.note # ""
            /\ loc[p].importCalls = 0
            /\ loc[p].sent = <<>>
            /\ LocalUnchanged(p)

\* such a sync has returned while the file held other data than the device
C5Witness ==
    /\ SyncReturned("ctx")
    /\ LastSyncAtBefore("ctx") # Null
    /\ WriteEndpointBefore("ctx") = ""
    /\ JsGreater(LocalTimeBefore("ctx"), RemoteTimeFetched("ctx"))
    /\ loc["ctx"].remoteData.hasData
    /\ loc["ctx"].pre.tasks # Range(loc["ctx"].remoteData.tasks)

\* what C6 promises of a call: 'upToDate', no import, no send, tasks, habits
\* and tags untouched
TieOutcome(p) ==
    /\ loc[p].result.action = "upToDate"
    /\ loc[p].importCalls = 0
    /\ loc[p].sent = <<>>
    /\ LocalUnchanged(p)
    /\ ExportSettings(settings) = ExportSettings(loc[p].pre.settings)

\* C6 as stated: a non-first sync whose local localModifiedAt equals the
\* fetched file's localModifiedAt field (both null included) returns
\* 'upToDate' and neither imports nor pushes.
C6TieOnLocalModifiedAtField ==
    \A p \in Procs :
        (SyncReturned(p) /\ LastSyncAtBefore(p) # Null
           /\ ClockBefore(p) = loc[p].remoteData.localModifiedAt) =>
            TieOutcome(p)

\* C6: a non-first sync whose local localModifiedAt equals the timestamp the
\* sync takes from the fetched file (its localModifiedAt, else its syncedAt,
\* else its exportedAt; both null included) returns 'upToDate', imports
\* nothing, sends nothing and leaves tasks, habits and tags unchanged.
C6TieIsNoOp ==
    \A p \in Procs :
        (SyncEnded(p) /\ GotObject(p) /\ LastSyncAtBefore(p) # Null
           /\ ClockBefore(p) = RemoteModifiedAt(loc[p].remoteData)) =>
            /\ SyncReturned(p)
            /\ TieOutcome(p)

\* a tie has returned while the file held other data than the device
C6Witness ==
    /\ SyncReturned("ctx")
    /\ LastSyncAtBefore("ctx") # Null
    /\ ClockBefore("ctx") = RemoteModifiedAt(loc["ctx"].remoteData)
    /\ loc["ctx"].remoteData.hasData
    /\ loc["ctx"].pre.tasks # Range(loc["ctx"].remoteData.tasks)

\* the calls of syncFromGoogleDrive that have started and not yet settled
InFlight == {p \in Procs : loc[p].op = "sync" /\ pc[p] \notin {"idle", "done", "failed"}}

\* C7: in every reachable state at most one syncFromGoogleDrive is in
\* flight, whichever entry point started it (sync button, auto-sync
\* trigger, visibility handler, add-task page).
C7SingleFlight == Cardinality(InFlight) <= 1

\* C8: a sync that ends with an exception leaves the stored sync settings,
\* lastSyncAt among them, as they were when it started.
C8FailedSyncKeepsLastSyncAt ==
    \A p \in Procs :
        SyncFailed(p) =>
            /\ GetSyncSettings(settings).lastSyncAt = LastSyncAtBefore(p)
            /\ GetSyncSettings(settings) = GetSyncSettings(loc[p].pre.settings)

\* a sync has failed in the send, the last point where it can
C8Witness ==
    /\ SyncFailed("ctx")
    /\ loc["ctx"].error = "push"
    /\ LastSyncAtBefore("ctx") # Null
    /\ LastSyncAtBefore("ctx") # now

\* C9: a sync that returns has stored a non-null lastSyncAt, and a sync
\* takes the first-sync branch only if lastSyncAt was null when it started:
\* the sync that follows one that returned is not a first sync.
C9ReturnedSyncSetsLastSyncAt ==
    \A p \in Procs :
        /\ SyncReturned(p) =>
             /\ GetSyncSettings(settings).lastSyncAt \in Times
             /\ GetSyncSettings(settings).lastSyncAt = loc[p].stamp
        /\ (loc[p].op = "sync" /\ loc[p].isFirstSync) => LastSyncAtBefore(p) = Null

\* a sync has returned that started from the lastSyncAt an earlier sync of
\* the run stored (no earlier value is 2 or more)
C9Witness ==
    /\ SyncReturned("ctx")
    /\ calls = 2
    /\ LastSyncAtBefore("ctx") >= 2
    /\ ~loc["ctx"].result.isFirstSync

\* C10: importAllData called with null or with an object that has no data
\* key throws 'Invalid import data format' at once, and tasks, habits and
\* settings (the clock among them) are what they were.
C10InvalidImportRejected ==
    \A p \in Procs :
        (loc[p].op = "import" /\ pc[p] # "iCheck"
           /\ (~loc[p].importData.isObject \/ ~loc[p].importData.hasData)) =>
            /\ pc[p] = "failed"
            /\ loc[p].error = "invalidFormat"
            /\ StoreNow = loc[p].pre

\* {} was imported over a non-empty store
C10Witness ==
    /\ loc["ctx"].op = "import"
    /\ pc["ctx"] = "failed"
    /\ loc["ctx"].importData.isObject
    /\ ~loc["ctx"].importData.hasData
    /\ loc["ctx"].pre.tasks # {}
    /\ ClockBefore("ctx") # Null

\* C11: importAllData(exportAllData(), {preserveLocalTimestamp: true}) ends
\* without an exception and the store then holds the same tasks, the same
\* habits and the same tags as before the export, ids and values included.
C11RoundTrip ==
    \A p \in Procs :
        (loc[p].op = "roundTrip" /\ pc[p] \in {"done", "failed"}) =>
            /\ pc[p] = "done"
            /\ tasks = loc[p].pre.tasks
            /\ habits = loc[p].pre.habits
            /\ GetAvailableTags(settings) = GetAvailableTags(loc[p].pre.settings)

\* a round trip over a store with two tasks, a habit and tags has ended
C11Witness ==
    /\ loc["ctx"].op = "roundTrip"
    /\ pc["ctx"] = "done"
    /\ Cardinality(loc["ctx"].pre.tasks) = 2
    /\ loc["ctx"].pre.habits # {}
    /\ loc["ctx"].result.tasksImported = 2
    /\ HasKey(settings, "availableTags")

\* the Local Store's mutating functions for tasks, mood entries and tags
MutatingOps ==
    {"createTask", "updateTask", "deleteTask", "upsertHabit", "deleteHabit",
     "addTag", "updateTag", "deleteTag"}

\* call p is one of them, has written (an updateTag of an id no tag has
\* writes nothing) and has returned
Mutated(p) ==
    loc[p].op \in MutatingOps /\ pc[p] = "done" /\ loc[p].clockAfter # Null

\* C12 as stated: a mutating function that has written and returned has set
\* localDataModifiedAt to a value greater than or equal to the value it had
\* before, whatever that value was.
C12ClockNeverDecreases ==
    \A p \in Procs :
        (Mutated(p) /\ loc[p].clockBefore \in Times) =>
            loc[p].clockAfter >= loc[p].clockBefore

\* C12: a mutating function that has written and returned has set
\* localDataModifiedAt to the wall-clock time of its write; that is a value
\* greater than or equal to the previous one whenever the previous one was
\* not ahead of the wall clock.
C12MutationStampsNow ==
    \A p \in Procs :
        (loc[p].op \in MutatingOps /\ pc[p] = "done"
           /\ (loc[p].op = "updateTag" => InTags(loc[p].tags, loc[p].arg.val))) =>
            /\ loc[p].clockAfter = now
            /\ (loc[p].clockBefore \in Times /\ loc[p].clockBefore <= now) =>
                  loc[p].clockAfter >= loc[p].clockBefore

\* a task was updated at time 2 in a store last modified at time 1
C12Witness ==
    /\ loc["ctx"].op = "updateTask"
    /\ pc["ctx"] = "done"
    /\ loc["ctx"].clockBefore = 1
    /\ loc["ctx"].clockAfter = 2
    /\ GetClock(settings) = 2

\* the writes of UI-only settings and of the Sync Settings record
SettingsOps == {"setSectionExpandState", "setTheme", "setGoogleDriveSyncSettings"}

\* call p takes a step
Steps(p) == pc'[p] # pc[p]

\* C13: no step of setSectionExpandState, of the theme write or of
\* setGoogleDriveSyncSettings, and no step of the lastSyncAt update a sync
\* makes, changes localDataModifiedAt.
C13SettingsLeaveClock ==
    [][\A p \in Procs :
          (Steps(p) /\ (loc[p].op \in SettingsOps \/ pc[p] \in {"lGet", "lPut"})) =>
              GetClock(settings') = GetClock(settings)]_vars

\* setGoogleDriveSyncSettings({autoSync: true}) has returned, the theme is
\* stored, and the clock still reads what it read before the call
C13Witness ==
    /\ loc["ctx"].op = "setGoogleDriveSyncSettings"
    /\ pc["ctx"] = "done"
    /\ GetSyncSettings(settings).autoSync
    /\ ~GetSyncSettings(loc["ctx"].pre.settings).autoSync
    /\ HasKey(settings, "theme")
    /\ GetClock(settings) = 2
    /\ GetClock(loc["ctx"].pre.settings) = 2

\* an import or a sync pull writes the imported snapshot's timestamp
SetsImportedStamp == \E p \in Procs : Steps(p) /\ pc[p] \in {"iStamp", "sSetClock"}

\* C14, the clause on clearing: once set, localDataModifiedAt does not
\* become null by any step of a Local Store operation, except where an
\* import or a sync pull writes the imported snapshot's timestamp.
C14ClockNeverCleared ==
    [][(GetClock(settings) \in Times /\ GetClock(settings') = Null) => SetsImportedStamp]_vars

\* no two stored mood entries share a date
OnePerDate == \A h1, h2 \in habits : h1.date = h2.date => h1 = h2

\* upsertHabit of call p writes while the entry it read for the date is
\* still the stored one
UpsertOfExisting(p) ==
    /\ loc[p].op = "upsertHabit"
    /\ pc[p] = "hPut"
    /\ Steps(p)
    /\ \E h \in habits : h.id = loc[p].existing.id /\ h.date = loc[p].arg.date

\* C15: in every reachable state no two stored mood entries share a date,
\* and an upsertHabit that writes for a date that has an entry succeeds,
\* leaves the number of entries unchanged and leaves the date's entry with
\* the id it had and the new score.
C15OneEntryPerDate ==
    /\ []OnePerDate
    /\ [][\A p \in Procs :
            UpsertOfExisting(p) =>
                /\ pc'[p] = "touch"
                /\ Cardinality(habits') = Cardinality(habits)
                /\ \E h \in habits' :
                     /\ h.date = loc[p].arg.date
                     /\ h.id = loc[p].existing.id
                     /\ h.score = loc[p].arg.val]_vars

\* two upserts for date 2, which had no entry, ran at the same time: one
\* has stored its entry, the other was rejected by the index
C15Witness ==
    /\ loc["ctx"].op = "upsertHabit" /\ loc["page"].op = "upsertHabit"
    /\ loc["ctx"].arg.date = 2 /\ loc["page"].arg.date = 2
    /\ loc["ctx"].existing = NoRecord /\ loc["page"].existing = NoRecord
    /\ pc["ctx"] = "done"
    /\ pc["page"] = "failed" /\ loc["page"].error = "constraint"
    /\ Cardinality({h \in habits : h.date = 2}) = 1

\* C16: whenever a sync started through performSync ends with an exception,
\* whichever step raised it, performSync shows the Error state with a
\* non-empty message, stores {action: "error", error: the exception's
\* message} as the last result and resolves with it; no performSync call is
\* ever rejected.
C16ErrorsAreCaught ==
    /\ [][(pc["ctx"] = "failed" /\ pc'["ctx"] = "idle") =>
            /\ app'.syncState = "error"
            /\ app'.statusMessage # ""
            /\ app'.lastSyncResult = [action |-> "error", error |-> loc["ctx"].error]
            /\ app'.settled = "error"
            /\ ~app'.isSyncingRef]_vars
    /\ [](app.settled # "rejected")

\* a sync run by performSync failed in its import (the store's constraint
\* error) and performSync has returned
C16Witness ==
    /\ pc["ctx"] = "idle"
    /\ app.settled = "error"
    /\ app.syncState = "error"
    /\ app.lastSyncResult = [action |-> "error", error |-> "constraint"]

\* C17: the debounce timer calls performSync exactly AUTO_SYNC_DEBOUNCE after
\* the last trigger, and every burst of triggers (each less than
\* AUTO_SYNC_DEBOUNCE after the one before) gets one such call: the bursts
\* so far are the calls made plus the one the armed timer still owes.
C17DebounceCollapsesBursts ==
    /\ [][app'.invocations # app.invocations =>
            /\ app'.invocations = app.invocations + 1
            /\ app'.ms = app.lastTrigger + AUTO_SYNC_DEBOUNCE]_vars
    /\ [](app.bursts = app.invocations + (IF app.autoSyncTimer THEN 1 ELSE 0))

\* three triggers one second apart, then one call of performSync two
\* seconds after the third
C17Witness ==
    /\ app.triggers = 3
    /\ app.bursts = 1
    /\ app.invocations = 1
    /\ app.lastTrigger = 2000
    /\ app.ms = 4000
    /\ ~app.autoSyncTimer

\* performSync starts a sync in this step
PerformSyncStarts == pc["ctx"] = "idle" /\ pc'["ctx"] = "sGetSettings"

\* C18, the clause on interleaving: while a sync is in flight in the web
\* app, a request made through performSync (sync button, visibility
\* handler, debounce or retry timer) starts no sync; it waits for the one
\* in flight to finish.
C18NoSyncStartsDuringSync == [][InFlight # {} => ~PerformSyncStarts]_vars

\* C19: in the extension popup every accepted auto-sync trigger, one made
\* while a sync is in flight included, is eventually followed by the start
\* of a sync.
C19TrailingSyncRuns == app.unsynced ~> ~app.unsynced

\* the stored Sync Settings have enabled and autoSync on
PersistedAutoSync ==
    GetSyncSettings(settings).enabled /\ GetSyncSettings(settings).autoSync

\* C20: a mutating Local Store function, on completing its write, sets the
\* auto-sync timer if and only if the stored Sync Settings have enabled and
\* autoSync on at that time.
C20AutoSyncFollowsSettings ==
    [][\A p \in Procs :
          (pc[p] = "touch" /\ pc'[p] = "done") =>
              (app'.timersSet = app.timersSet + 1 <=> PersistedAutoSync)]_vars

\* C21: when the app loads with sync enabled, autoSync on and a share link
\* stored, a sync is started without any user action.
C21InitialSyncStarts ==
    (PersistedAutoSync /\ GetSyncSettings(settings).shareLink # "")
        => <>(pc["ctx"] # "idle")

\* the provider's sync has been started by performSync and has not come
\* to its end
ProviderSyncRunning == app.isSyncingRef /\ pc["ctx"] \notin {"idle", "done", "failed"}

\* C22: while the provider's sync is in flight the state shown is Syncing,
\* never Idle or a result state, also when the status timer of the sync
\* before it is still pending.
C22SyncingWhileInFlight == ProviderSyncRunning => app.syncState = "syncing"

\* C23: whenever sync is not enabled (the provider has read settings with
\* no share link or enabled = false) the state shown is Disabled; no timer
\* and no sync completion moves it out of Disabled.
C23DisabledWhileNotEnabled == ~app.isEnabled => app.syncState = "disabled"

\* the transient result states
ResultStates == {"pulled", "pushed", "upToDate", "error"}

\* C24: while a result state (Pulled, Pushed, UpToDate, Error) is shown and
\* no sync is in flight, a sync request (the sync button; the tab becoming
\* visible with auto-sync on) starts a sync at once, whether or not the
\* 3 s / 5 s status timer has fired.
C24ResultStatesDoNotGate ==
    (app.syncState \in ResultStates /\ ~app.isSyncingRef /\ calls < MaxCalls)
        => /\ ENABLED (ClickSync /\ PerformSyncStarts)
           /\ (PersistedAutoSync => ENABLED (VisibilityChange /\ PerformSyncStarts))

\* a sync started by a request made while the result of the sync before it
\* was still shown: its status timer is still pending
C24Witness ==
    /\ app.syncState = "syncing"
    /\ app.isSyncingRef
    /\ app.statusTimer
    /\ calls = 2

Snapshots(p) == {loc[p].exp} \cup Range(loc[p].sent)

\* C26: a snapshot built by exportAllData has no settings key other than
\* availableTags and sectionExpandStates: googleDriveSync, theme,
\* deviceTimezone and localDataModifiedAt never appear in data.settings.
C26ExportHasNoDeviceSettings ==
    \A p \in Procs : \A x \in Snapshots(p) :
        DOMAIN x.settings \subseteq {"availableTags", "sectionExpandStates"}

\* an export has read the settings of a store that holds a theme, sync
\* settings and a clock besides the tags
C26Witness ==
    \E p \in Procs :
        /\ loc[p].exp.hasData
        /\ loc[p].exp.exportedAt # Null
        /\ {"theme", "googleDriveSync", "localDataModifiedAt"} \subseteq DOMAIN settings
        /\ DOMAIN loc[p].exp.settings = {"availableTags"}

\* C27: a sync called while no share link is stored ends with the
\* not-configured error, has fetched nothing, and leaves tasks, habits and
\* every setting (the clock and lastSyncAt among them) as they were.
C27NoLinkFailsBeforeFetch ==
    \A p \in Procs :
        (loc[p].op = "sync" /\ pc[p] \in {"done", "failed"}
           /\ GetSyncSettings(loc[p].pre.settings).shareLink = "") =>
            /\ pc[p] = "failed"
            /\ loc[p].error = "notConfigured"
            /\ ~loc[p].fetched
            /\ loc[p].sent = <<>>
            /\ StoreNow = loc[p].pre

\* a sync without a link has failed over a store with tasks and a clock
C27Witness ==
    /\ loc["ctx"].op = "sync"
    /\ pc["ctx"] = "failed"
    /\ loc["ctx"].error = "notConfigured"
    /\ tasks # {}
    /\ GetClock(settings) \in Times

\* call p is back from importAllData(remoteData, {preserveLocalTimestamp:
\* true})
PreservingImportEnded(p) == loc[p].op = "sync" /\ loc[p].preserve /\ pc[p] = "sSetClock"

\* C28: importAllData with preserveLocalTimestamp = true leaves
\* localDataModifiedAt as it was before the call, for every snapshot and
\* every clock value.
C28PreservingImportKeepsClock ==
    \A p \in Procs :
        PreservingImportEnded(p) => GetClock(settings) = GetClock(loc[p].pre.settings)

\* importAllData(file) without options has returned in call p
PlainImportReturned(p) == loc[p].op = "import" /\ ~loc[p].preserve /\ pc[p] = "done"

\* C29: importAllData with preserveLocalTimestamp false or omitted leaves
\* the clock at the snapshot's localModifiedAt if it has one, else at its
\* syncedAt, else at its exportedAt, and at the current time only when it
\* has none of the three.
C29ImportStampsClock ==
    \A p \in Procs :
        PlainImportReturned(p) =>
            LET d == loc[p].importData
            IN GetClock(settings) =
                 IF d.localModifiedAt # Null THEN d.localModifiedAt
                 ELSE IF d.syncedAt # Null THEN d.syncedAt
                 ELSE IF d.exportedAt # Null THEN d.exportedAt
                 ELSE now

\* a file with syncedAt and an older exportedAt but no localModifiedAt was
\* imported over a store with another clock
C29Witness ==
    /\ PlainImportReturned("ctx")
    /\ loc["ctx"].importData.localModifiedAt = Null
    /\ loc["ctx"].importData.syncedAt = MaxTime
    /\ loc["ctx"].importData.exportedAt = 1
    /\ GetClock(loc["ctx"].pre.settings) = 2
    /\ GetClock(settings) = MaxTime

\* the effective timestamp of the file call p fetched
EffectiveStamp(p) ==
    FirstTruthy(loc[p].remoteData.localModifiedAt, loc[p].remoteData.syncedAt,
                loc[p].remoteData.exportedAt)

\* a sync has returned 'pulled' in call p
Pulled(p) == SyncReturned(p) /\ loc[p].result.action = "pulled"

\* C30: after a sync has returned 'pulled', first sync or not, the clock
\* equals the remote file's effective timestamp (localModifiedAt, else
\* syncedAt, else exportedAt) when it has one, and keeps its previous value
\* when the file has none.
C30PulledClockIsRemoteStamp ==
    \A p \in Procs :
        Pulled(p) =>
            GetClock(settings) =
                IF EffectiveStamp(p) # Null THEN EffectiveStamp(p) ELSE ClockBefore(p)

\* the first clause alone: a file with an effective timestamp
C30StampedPull ==
    \A p \in Procs :
        (Pulled(p) /\ EffectiveStamp(p) # Null) => GetClock(settings) = EffectiveStamp(p)

\* the operations C31 names
NotifyingOps == {"createTask", "updateTask", "deleteTask", "upsertHabit", "addTag"}

\* C31: when a mutating operation calls the auto-sync callback, and when
\* its promise resolves, its write of localDataModifiedAt has completed;
\* the callback is called only in a step that follows that write.
C31ClockWrittenBeforeCallback ==
    /\ [](\A p \in Procs :
           (loc[p].op \in NotifyingOps /\ pc[p] \in {"notify", "done"}) =>
               loc[p].clockAfter \in Times)
    /\ [][\A p \in Procs :
            (loc[p].op \in NotifyingOps /\ pc'[p] = "done" /\ pc[p] # "done") =>
                (pc[p] = "notify" /\ loc[p].clockAfter \in Times
                   /\ app' = DbTrigger(app))]_vars

\* a createTask has resolved after its callback set the debounce timer
C31Witness ==
    /\ loc["page"].op = "createTask"
    /\ pc["page"] = "done"
    /\ loc["page"].clockAfter \in Times
    /\ app.autoSyncTimer
    /\ app.timersSet = 1

\* the labels of importAllData between its first and its last write to the
\* tasks and habits stores
ImportWriting == {"iClearHabits", "iTasks", "iHabits"}

\* C32: while importAllData runs, what a reader finds in the tasks store is
\* either all of the content before the import or all of the snapshot's,
\* and the same for habits; never an empty or partly filled store.
C32ImportIsOneUnit ==
    \A p \in Procs :
        (loc[p].op = "import" /\ pc[p] \in ImportWriting) =>
            /\ tasks \in {loc[p].pre.tasks, Range(loc[p].importData.tasks)}
            /\ habits \in {loc[p].pre.habits, Range(loc[p].importData.habits)}

\* C33: after importAllData of a snapshot with a data object the
\* googleDriveSync record is what it was before the import, and every
\* settings key the store had is still there.
C33ImportKeepsSyncSettings ==
    \A p \in Procs :
        (loc[p].op = "import" /\ pc[p] = "done") =>
            /\ GetSyncSettings(settings) = GetSyncSettings(loc[p].pre.settings)
            /\ DOMAIN loc[p].pre.settings \subseteq DOMAIN settings

\* the clause on the other keys alone: a key the snapshot does not have
\* keeps its value (the clock is stamped by the import itself)
C33OtherKeysKept ==
    \A p \in Procs :
        (loc[p].op = "import" /\ pc[p] = "done") =>
            \A k \in DOMAIN loc[p].pre.settings :
                (k \notin DOMAIN loc[p].importData.settings /\ k # "localDataModifiedAt")
                    => (k \in DOMAIN settings /\ settings[k] = loc[p].pre.settings[k])

\* C34: a payload pushToGoogleDrive has built holds the effect of every
\* local mutation whose clock write is not later than the payload's
\* localModifiedAt: a task createTask has added and stamped, and which is
\* in the store, is in the payload whose timestamp is at least that stamp.
C34PayloadHoldsWhatItsStampCovers ==
    (/\ pc["ctx"] = "pSend"
     /\ loc["page"].op = "createTask"
     /\ pc["page"] \in {"notify", "done"}
     /\ T(loc["page"].arg.id, loc["page"].arg.val) \in tasks
     /\ loc["ctx"].exp.localModifiedAt \in Times
     /\ loc["page"].clockAfter <= loc["ctx"].exp.localModifiedAt)
        => T(loc["page"].arg.id, loc["page"].arg.val) \in Range(loc["ctx"].exp.tasks)

\* C35: when createTask has resolved while a steady-state sync was between
\* its fetch and its end, then once that sync has returned either it did not
\* pull, or the task is in the store and localDataModifiedAt is later than
\* the remote timestamp the sync compared.
C35OverlappingMutationSurvives ==
    (/\ SyncReturned("ctx")
     /\ ~loc["ctx"].isFirstSync
     /\ loc["page"].op = "createTask"
     /\ pc["page"] = "done"
     /\ loc["page"].overlap)
        => \/ loc["ctx"].result.action # "pulled"
           \/ /\ T(loc["page"].arg.id, loc["page"].arg.val) \in tasks
              /\ JsGreater(EpochOrZero(GetClock(settings)),
                           EpochOrZero(loc["ctx"].remoteModifiedAt))

\* the same for a task whose clock write is itself later than the remote
\* timestamp the sync compared: the newest write of all
C35NewerMutationSurvives ==
    (/\ SyncReturned("ctx")
     /\ ~loc["ctx"].isFirstSync
     /\ loc["page"].op = "createTask"
     /\ pc["page"] = "done"
     /\ loc["page"].overlap
     /\ JsGreater(loc["page"].clockAfter, EpochOrZero(loc["ctx"].remoteModifiedAt)))
        => \/ loc["ctx"].result.action # "pulled"
           \/ /\ T(loc["page"].arg.id, loc["page"].arg.val) \in tasks
              /\ JsGreater(EpochOrZero(GetClock(settings)),
                           EpochOrZero(loc["ctx"].remoteModifiedAt))

Disconnected(s) == s.shareLink = "" /\ ~s.enabled /\ s.lastSyncAt = Null

\* C36: once a disconnect and a sync have both finished, the stored sync
\* settings are the disconnected ones: empty link, not enabled, lastSyncAt
\* null.
C36DisconnectIsNotLost ==
    (/\ loc["page"].op = "setGoogleDriveSyncSettings"
     /\ loc["page"].arg.val = DisconnectPatch
     /\ pc["page"] = "done"
     /\ pc["ctx"] \in {"idle", "done", "failed"})
        => Disconnected(GetSyncSettings(settings))

\* the first sync returned "pulled", or "pushed" and the file the second
\* sync fetches is what it sent
SettledSync(p) ==
    /\ SyncReturned(p)
    /\ \/ loc[p].result.action = "pulled"
       \/ /\ loc[p].result.action = "pushed"
          /\ loc[p].sent # <<>>
          /\ loc["page"].fetched
          /\ loc["page"].remoteData = loc[p].sent[Len(loc[p].sent)]

C37PushedWitness ==
    /\ SettledSync("ctx")
    /\ loc["ctx"].result.action = "pushed"
    /\ SyncReturned("page")
    /\ loc["page"].result.action = "upToDate"

\* C38: a performSync that has set isSyncingRef clears it again, whatever
\* the remote does.
C38SyncReleasesGuard == app.isSyncingRef ~> ~app.isSyncingRef

\* the part of it that the abort timer gives: a fetch that is waiting ends
C38FetchEnds == (pc["ctx"] = "sWait") ~> (pc["ctx"] # "sWait")

\* a sync that does not come to a push ends
C38EndsUnlessPushWaits == app.isSyncingRef ~> (~app.isSyncingRef \/ pc["ctx"] = "pWait")

\* C39: when syncFromGoogleDrive ends with an exception, tasks, habits and
\* localDataModifiedAt are what they were when the sync started.
C39FailedSyncKeepsLocalData ==
    \A p \in Procs :
        SyncFailed(p) =>
            /\ tasks = loc[p].pre.tasks
            /\ habits = loc[p].pre.habits
            /\ GetClock(settings) = GetClock(loc[p].pre.settings)

\* the failures before the import: no link, a bad link, a failed fetch, a
\* file that is JSON null
C39FailureBeforeImportKeepsLocalData ==
    \A p \in Procs :
        (SyncFailed(p) /\ loc[p].importCalls = 0) =>
            /\ tasks = loc[p].pre.tasks
            /\ habits = loc[p].pre.habits
            /\ GetClock(settings) = GetClock(loc[p].pre.settings)

\* both Local Stores and the file hold the same tasks and habits, those of
\* a side that had the latest timestamp
Converged ==
    /\ tasks = app.other.tasks
    /\ habits = app.other.habits
    /\ Range(remote.tasks) = tasks
    /\ Range(remote.habits) = habits
    /\ <<tasks, habits>> \in app.winners

====
